---- MODULE Spec2Model ----
(***************************************************************************)
(* A model of the scholarship discovery engine of scholar-baller.          *)
(*                                                                         *)
(* The parts of the repository are modelled each with its own             *)
(* specification over the shared variable list (SpecDS joins the two       *)
(* versions of discoverScholarships, SpecRun a discovery run and its page  *)
(* fetches):                                                               *)
(*   SpecTC  the target-count orchestrator discoverScholarships of         *)
(*           src/unnamed/part_008 with its per-page scrapers,              *)
(*   SpecPG  the per-source paginators scrapeScholarships360 and scrapeBold *)
(*           of src/app/actions/discoverScholarships.ts and the            *)
(*           orchestrator that calls them,                                 *)
(*   SpecWP  scrapeWebpage of src/app/actions/analyzeScholarship.ts,       *)
(*   SpecST  insertScholarship and the scholarships table it writes,      *)
(*   SpecFR  fetchWithRetry of src/unnamed/part_008,                       *)
(*   SpecFP  a page fetch through a browser tab (fetchWithPuppeteer,       *)
(*           scrapeBold, scrapeScholarships360) and its plain-fetch path,  *)
(*   SpecGB  getBrowser and the termination handlers,                      *)
(*   SpecVU  isValidScholarshipUrl,                                        *)
(*   SpecCR  checkRedirect,                                                *)
(*   SpecHD  the fallback analysis loop of handleDiscover                  *)
(*           (src/app/api/init-db/route.ts),                               *)
(*   SpecGP  the AI policy and generation preference of stored             *)
(*           scholarships (src/unnamed/part_006),                          *)
(*   SpecHR  a dashboard run: handleDiscover awaiting the target-count     *)
(*           discoverScholarships and going on with its result,            *)
(*   SpecSS  runs of both versions of discoverScholarships, with larger    *)
(*           targets, for the per-source statistics,                       *)
(*   SpecTS  overlapping toggleSaved calls (src/unnamed/part_006).         *)
(***************************************************************************)
EXTENDS Integers, Sequences, FiniteSets, TLC

(***************************************************************************)
(* Bounds of the model.                                                    *)
(***************************************************************************)
\* largest maxPagesPerSource a run of the target-count orchestrator is given
MaxPagesPerSource == 4
\* largest targetCount a run is given
MaxTargetCount == 2
\* The scholarship URLs the scraped sites can link to: URL 1 may be in the
\* store before the run, URL 2 never is.
URLS == {1, 2}

\* The candidate links one listing page can carry, in document order, after the
\* per-source href filters and before the scraper's own duplicate check: at most
\* two links, the same URL possibly linked twice.
PageLinks ==
  {<<>>} \cup {<<a>> : a \in URLS} \cup {<<a, b>> : a \in URLS, b \in URLS}

(***************************************************************************)
(* Sequence helpers (JavaScript array methods).                            *)
(***************************************************************************)
\* the URLs of a list of DiscoveredScholarship
Urls(list) == {list[i].url : i \in 1..Len(list)}

\* Array.prototype.slice(0, n) for n >= 0
SliceOneMore(list, n) ==
  SubSeq(list, 1, IF n + 1 < Len(list) THEN n + 1 ELSE Len(list))

Slice(list, n) == SubSeq(list, 1, IF n < Len(list) THEN n ELSE Len(list))

\* self.findIndex((s) => s.url === url), 1-based; 0 when absent
FindIndex(list, url) ==
  IF \E i \in 1..Len(list) : list[i].url = url
  THEN CHOOSE i \in 1..Len(list) :
         /\ list[i].url = url
         /\ \A j \in 1..(i - 1) : list[j].url # url
  ELSE 0

\* list.some((s) => s.url === url)
SomeUrl(list, url) == \E i \in 1..Len(list) : list[i].url = url

(***************************************************************************)
(* URLs.  A URL is modelled by the parts the code inspects: its path       *)
(* segments, whether it ends in a slash, and its query parameters (key and *)
(* the decimal digits of the value).                                       *)
(***************************************************************************)
\* the decimal digits of n, as `${n}` prints them
RECURSIVE DigitsOf(_)
DigitsOf(n) == IF n < 10 THEN <<n>> ELSE DigitsOf(n \div 10) \o <<n % 10>>

\* a path segment is a word or a number (`${page}`)
Lit(word) == [s |-> word, n |-> 0]
Num(number) == [s |-> "", n |-> number]

\* String.prototype.toLowerCase on a path segment
LowerSeg(seg) ==
  CASE seg.s = "Scholarships" -> Lit("scholarships")
    [] seg.s = "Search" -> Lit("search")
    [] OTHER -> seg

ToLowerCase(u) ==
  [u EXCEPT !.path = [i \in 1..Len(u.path) |-> LowerSeg(u.path[i])]]

IsPrefixOf(p, q) == Len(p) <= Len(q) /\ SubSeq(q, 1, Len(p)) = p

\* u.includes(`/a/b/`): two consecutive path segments followed by a slash
IncludesPair(u, a, b) ==
  \E i \in 1..(Len(u.path) - 1) :
    /\ u.path[i] = a
    /\ u.path[i + 1] = b
    /\ (i + 1 < Len(u.path) \/ u.slash)

\* u.includes(`key=${page}`): some query parameter `key` whose value starts
\* with the digits of page
IncludesParam(u, key, page) ==
  \E i \in 1..Len(u.query) :
    u.query[i].k = key /\ IsPrefixOf(DigitsOf(page), u.query[i].v)

\* u.includes('?page='): the first query parameter is `page`
IncludesQPage(u) == Len(u.query) > 0 /\ u.query[1].k = "page"

\* u.endsWith('/seg/') || u.endsWith('/seg')
EndsWithSeg(u, seg) ==
  Len(u.query) = 0 /\ Len(u.path) > 0 /\ u.path[Len(u.path)] = seg

Url(path, slash, query) == [path |-> path, slash |-> slash, query |-> query]

\* the page URL each per-page scraper builds
BoldUrl(page) ==
  IF page = 1 THEN Url(<<Lit("scholarships")>>, TRUE, <<>>)
  ELSE Url(<<Lit("scholarships"), Num(page)>>, TRUE, <<>>)

S360Url(page) ==
  IF page = 1 THEN Url(<<Lit("scholarships"), Lit("search")>>, TRUE, <<>>)
  ELSE Url(<<Lit("scholarships"), Lit("search")>>, TRUE,
           <<[k |-> "search", v |-> <<>>],
             [k |-> "current_page", v |-> DigitsOf(page)]>>)

ComUrl(page) ==
  IF page = 1
  THEN Url(<<Lit("financial-aid"), Lit("college-scholarships"),
             Lit("scholarship-directory")>>, FALSE, <<>>)
  ELSE Url(<<Lit("financial-aid"), Lit("college-scholarships"),
             Lit("scholarship-directory")>>, FALSE,
           <<[k |-> "page", v |-> DigitsOf(page)]>>)

PageUrl(name, page) ==
  CASE name = "Bold.org" -> BoldUrl(page)
    [] name = "Scholarships360" -> S360Url(page)
    [] OTHER -> ComUrl(page)

\* a page of the site outside the listing (a login wall)
LoginUrl == Url(<<Lit("login")>>, TRUE, <<>>)

\* the first listing page as a server may spell it: capitalised, no slash
FirstPageVariant(name) ==
  CASE name = "Bold.org" -> Url(<<Lit("Scholarships")>>, FALSE, <<>>)
    [] name = "Scholarships360" ->
         Url(<<Lit("Scholarships"), Lit("Search")>>, TRUE, <<>>)
    [] OTHER -> ComUrl(1)

\* the final URLs a request for page `page` of source `name` can end on
FinalUrls(name, page) ==
  {PageUrl(name, page), PageUrl(name, 1), FirstPageVariant(name), LoginUrl}

checkRedirect(requestedUrl, finalUrl, page, source) ==
  IF page <= 1 THEN FALSE
  ELSE LET normalizedRequested == ToLowerCase(requestedUrl)
           normalizedFinal == ToLowerCase(finalUrl)
       IN  CASE source = "Bold.org" ->
                  /\ IncludesPair(normalizedRequested, Lit("scholarships"), Num(page))
                  /\ EndsWithSeg(normalizedFinal, Lit("scholarships"))
             [] source = "Scholarships360" ->
                  /\ IncludesParam(normalizedRequested, "current_page", page)
                  /\ \E i \in 1..(Len(normalizedFinal.path) - 1) :
                       /\ normalizedFinal.path[i] = Lit("scholarships")
                       /\ normalizedFinal.path[i + 1] = Lit("search")
                  /\ ~IncludesParam(normalizedFinal, "current_page", page)
             [] source = "Scholarships.com" ->
                  /\ IncludesQPage(normalizedRequested)
                  /\ \E i \in 1..Len(normalizedFinal.path) :
                       normalizedFinal.path[i] = Lit("scholarship-directory")
                  /\ ~IncludesQPage(normalizedFinal)
             [] OTHER -> FALSE
(***************************************************************************)
(* State.                                                                  *)
(***************************************************************************)
VARIABLES
  \* discoverScholarships (target-count orchestrator), its arguments
  maxPagesPerSource, targetCount,
  \* what the store returned at its start
  existingUrlSet, enabledSources,
  \* its locals
  sharedState, sourceStatsMap, allScholarships, errors,
  srcIdx, page, pc,
  limitedScholarships, analyzedScholarships, analysisErrors, analysisIdx,
  \* the DiscoveryResult it returned
  result,
  \* the calls it made: per-page scraper invocations (and how the last one
  \* ended) and analyzeScholarship calls
  scraperCalls, lastOutcome, analyzeCalls,
  \* discoverScholarships of src/app/actions/discoverScholarships.ts: the
  \* sourceStats list it builds and whether getBrowser() yields a browser
  sourceStats, browserAvailable,
  \* the per-source paginator it is running and the paginator's locals
  \* (scrapedScholarships is its list `scholarships`)
  scraper, scrapedScholarships, consecutiveDuplicatePages,
  consecutiveEmptyPages, totalPagesScanned, totalNewFound,
  \* the tab scrapeBold drives: its location and the links it shows
  browserPage,
  \* the pages a paginator scanned and why it left its loop
  scans, stopReason,
  \* scrapeWebpage: its arguments, locals, the responses it got, its outcome
  wpUrl, retries, attempt, lastError, fetchLog, wpPc,
  \* the scholarships table of the store, the next id gen_random_uuid() yields,
  \* and the insertScholarship calls made with what they returned
  storeRows, nextId, insertLog,
  \* fetchWithRetry: its retries argument, its loop variable i, the requests
  \* it issued with what they came to, where it is, and what it returned
  frRetries, frI, frLog, frPc, frResult,
  \* a page fetch through a browser tab: the function making it, whether
  \* getBrowser() yields a browser, the retries argument and loop variable of
  \* fetchWithPuppeteer, the number of open tabs, the scroll loop (its
  \* variable, the height of the page, the two heights each cycle measured),
  \* how the attempts ended, where the fetch is and what it came to
  fpCaller, fpBrowser, fpRetries, fpAttempt, fpTabs, fpScroll, fpHeight,
  fpCycles, fpLog, fpPc, fpResult,
  \* the page number a scraper was called for, and what it made of the
  \* response: the response, the list it returns, how the request ended
  fpPageNo, fpScrape,
  \* the fetch attempts the page request made so far: navigations of a tab
  \* and requests of fetchWithRetry
  fpFetches,
  \* getBrowser: the module variable browserInstance (0 is null), whether a
  \* browser executable exists, the browser processes launched and not closed,
  \* the id of the next one, and for each discovery run where its getBrowser
  \* call is, how many calls it made and what the last one returned; whether
  \* a termination handler is waiting for close()
  browserInstance, gbExecutable, gbLive, gbNextBrowser, gbPc, gbCalls, gbGot,
  gbHandler,
  \* the calls of isValidScholarshipUrl made, with their results, and the
  \* call of checkRedirect made, with its result
  vuLog, crCall,
  \* the analysis loop of handleDiscover: the number of scholarships the
  \* discovery returned, its loop variable i, its locals analyzedCount and
  \* quotaExceeded, the analyzeScholarship calls and the rate-limit waits it
  \* made, which of the two it did last, and where it is
  hdDiscovered, hdI, analyzedCount, quotaExceeded, hdCalls, hdWaits, hdLast,
  hdPc,
  \* the indexes into scholarshipsToAnalyze its analyzeScholarship calls were
  \* made for
  hdAnalyzeCalls,
  \* the calls of updateGenerationPreference and of getScholarshipById made,
  \* and what the last getScholarshipById returned (the empty list is null)
  gpLog, gpRead,
  \* toggleSaved: for each caller where its call is, the id it was called
  \* with and the is_saved its SELECT read; the calls that returned, with what
  \* they returned; the number of calls started; and is_saved of each row
  \* before the first call
  tsPc, tsId, tsCurrent, tsLog, tsStarted, tsInitial

tcVars ==
  <<maxPagesPerSource, targetCount, existingUrlSet, enabledSources, sharedState,
    sourceStatsMap, allScholarships, errors, srcIdx, page, pc,
    limitedScholarships, analyzedScholarships, analysisErrors, analysisIdx,
    result, scraperCalls, lastOutcome, analyzeCalls>>

\* the state of the paginators of src/app/actions/discoverScholarships.ts
pgVars ==
  <<sourceStats, browserAvailable, scraper, scrapedScholarships,
    consecutiveDuplicatePages, consecutiveEmptyPages, totalPagesScanned,
    totalNewFound, browserPage, scans, stopReason>>

\* the state of scrapeWebpage
wpVars == <<wpUrl, retries, attempt, lastError, fetchLog, wpPc>>

\* the state of the store
stVars == <<storeRows, nextId, insertLog>>

\* the state of fetchWithRetry
frVars == <<frRetries, frI, frLog, frPc, frResult>>

\* the state of a page fetch through a browser tab
fpVars ==
  <<fpCaller, fpBrowser, fpRetries, fpAttempt, fpTabs, fpScroll, fpHeight,
    fpCycles, fpLog, fpPc, fpResult, fpPageNo, fpScrape, fpFetches>>

\* the state of getBrowser and the termination handlers
gbVars ==
  <<browserInstance, gbExecutable, gbLive, gbNextBrowser, gbPc, gbCalls, gbGot,
    gbHandler>>

\* the state of the fetch helpers of the scrapers
netVars == <<frVars, fpVars, gbVars>>

\* the calls of the helper functions
fnVars == <<vuLog, crCall>>

\* the state of the analysis loop of handleDiscover
hdVars ==
  <<hdDiscovered, hdI, analyzedCount, quotaExceeded, hdCalls, hdWaits, hdLast,
    hdPc, hdAnalyzeCalls>>

\* the calls of the store's actions besides insertScholarship
gpVars == <<gpLog, gpRead>>

\* the state of the route handlers and server actions
\* the state of the toggleSaved calls
tsVars == <<tsPc, tsId, tsCurrent, tsLog, tsStarted, tsInitial>>

apiVars == <<hdVars, gpVars, tsVars>>

vars == <<tcVars, pgVars, wpVars, stVars, netVars, fnVars, apiVars>>

\* what a step of discoverScholarships, and what a step of scrapeWebpage,
\* leaves alone
notDiscovery == <<wpVars, stVars, netVars, fnVars, apiVars>>
notWebpage == <<tcVars, pgVars, stVars, netVars, fnVars, apiVars>>
notStore == <<tcVars, pgVars, wpVars, netVars, fnVars, apiVars>>
notRetry == <<tcVars, pgVars, wpVars, stVars, fpVars, gbVars, fnVars, apiVars>>
notTab == <<tcVars, pgVars, wpVars, stVars, frVars, gbVars, fnVars, apiVars>>
notBrowser == <<tcVars, pgVars, wpVars, stVars, frVars, fpVars, fnVars, apiVars>>
notHelpers == <<tcVars, pgVars, wpVars, stVars, netVars, apiVars>>
notHandler == <<tcVars, pgVars, wpVars, stVars, netVars, fnVars, gpVars, tsVars>>
notPreference == <<tcVars, pgVars, wpVars, netVars, fnVars, hdVars, tsVars>>
notToggle == <<tcVars, pgVars, wpVars, netVars, fnVars, hdVars, gpVars>>

\* lastError = null
NoError == [message |-> "null", status |-> 0]

NoTab == [open |-> FALSE, loc |-> 0, links |-> <<>>]

\* no paginator of src/app/actions/discoverScholarships.ts is running
PGIdle ==
  /\ sourceStats = <<>>
  /\ browserAvailable = FALSE
  /\ scraper = "none"
  /\ scrapedScholarships = <<>>
  /\ consecutiveDuplicatePages = 0
  /\ consecutiveEmptyPages = 0
  /\ totalPagesScanned = 0
  /\ totalNewFound = 0
  /\ browserPage = NoTab
  /\ scans = <<>>
  /\ stopReason = "none"

\* the store is not part of the run: its table is empty
STIdle ==
  /\ storeRows = <<>>
  /\ nextId = 1
  /\ insertLog = <<>>

\* no fetchWithRetry call is running
FRIdle ==
  /\ frRetries = 0
  /\ frI = 0
  /\ frLog = <<>>
  /\ frPc = "idle"
  /\ frResult = "none"

\* a scraper that has not got a response
NoScrape ==
  [resp |-> [kind |-> "none", finalUrl |-> [path |-> <<>>, slash |-> FALSE, query |-> <<>>],
             links |-> <<>>],
   scholarships |-> <<>>, outcome |-> "none"]

\* no page is being fetched through a browser tab
FPIdle ==
  /\ fpCaller = "none"
  /\ fpBrowser = FALSE
  /\ fpRetries = 0
  /\ fpAttempt = 0
  /\ fpTabs = 0
  /\ fpScroll = 0
  /\ fpHeight = 0
  /\ fpCycles = <<>>
  /\ fpLog = <<>>
  /\ fpPc = "idle"
  /\ fpResult = "none"
  /\ fpPageNo = 1
  /\ fpScrape = NoScrape
  /\ fpFetches = 0

\* the discovery runs whose getBrowser calls may overlap
Runs == {1, 2}

\* no getBrowser call was made
GBIdle ==
  /\ browserInstance = 0
  /\ gbExecutable = FALSE
  /\ gbLive = {}
  /\ gbNextBrowser = 1
  /\ gbPc = [r \in Runs |-> "idle"]
  /\ gbCalls = [r \in Runs |-> 0]
  /\ gbGot = [r \in Runs |-> 0]
  /\ gbHandler = "idle"

\* checkRedirect was not called
NoCall ==
  [requestedUrl |-> [path |-> <<>>, slash |-> FALSE, query |-> <<>>],
   finalUrl |-> [path |-> <<>>, slash |-> FALSE, query |-> <<>>],
   page |-> 0, source |-> "none", result |-> FALSE]

\* no helper function was called
FNIdle ==
  /\ vuLog = <<>>
  /\ crCall = NoCall

\* handleDiscover is not running
HDIdle ==
  /\ hdDiscovered = 0
  /\ hdI = 0
  /\ analyzedCount = 0
  /\ quotaExceeded = FALSE
  /\ hdCalls = 0
  /\ hdWaits = 0
  /\ hdLast = "none"
  /\ hdPc = "idle"
  /\ hdAnalyzeCalls = <<>>

\* no preference was updated and no scholarship read
GPIdle ==
  /\ gpLog = <<>>
  /\ gpRead = <<>>

\* the callers whose toggleSaved calls may overlap
Callers == {1, 2}

\* toggleSaved was not called
TSIdle ==
  /\ tsPc = [c \in Callers |-> "idle"]
  /\ tsId = [c \in Callers |-> 0]
  /\ tsCurrent = [c \in Callers |-> FALSE]
  /\ tsLog = <<>>
  /\ tsStarted = 0
  /\ tsInitial = <<>>

ApiIdle == HDIdle /\ GPIdle /\ TSIdle

\* no fetch helper is running, no helper function was called, no route
\* handler is running
NetIdle == FRIdle /\ FPIdle /\ GBIdle /\ FNIdle /\ ApiIdle

\* no scrapeWebpage call is running
WPIdle ==
  /\ wpUrl = "none"
  /\ retries = 0
  /\ attempt = 0
  /\ lastError = NoError
  /\ fetchLog = <<>>
  /\ wpPc = "idle"

(***************************************************************************)
(* The sources table (getCustomSources) and the per-page scrapers of       *)
(* src/unnamed/part_008.                                                   *)
(***************************************************************************)
SourceTable ==
  << [id |-> "custom-1", name |-> "Local Fund", baseUrl |-> "localfund.example"],
     [id |-> "bold", name |-> "Bold.org", baseUrl |-> "bold.org"],
     [id |-> "scholarships360", name |-> "Scholarships360",
      baseUrl |-> "scholarships360.org"],
     [id |-> "scholarshipscom", name |-> "Scholarships.com",
      baseUrl |-> "scholarships.com"] >>

\* the enabled sources a run is given: none, one, or two neighbours of the
\* table, in table order
SourceChoices ==
  {<<>>} \cup {<<SourceTable[i]>> : i \in 1..Len(SourceTable)}
    \cup {<<SourceTable[i], SourceTable[i + 1]>> : i \in 1..(Len(SourceTable) - 1)}

IsBold(source) == source.id = "bold" \/ source.baseUrl = "bold.org"
IsS360(source) ==
  source.id = "scholarships360" \/ source.baseUrl = "scholarships360.org"
IsCom(source) == source.id = "scholarshipscom" \/ source.baseUrl = "scholarships.com"
IsBuiltIn(source) == IsBold(source) \/ IsS360(source) \/ IsCom(source)

\* The links.each loop of a scraper: a link is pushed unless the list of this
\* call already holds its URL.
RECURSIVE ExtractLinks(_, _, _)
ExtractLinks(links, sourceName, scholarships) ==
  IF links = <<>> THEN scholarships
  ELSE LET fullUrl == Head(links)
       IN  IF ~SomeUrl(scholarships, fullUrl)
           THEN ExtractLinks(Tail(links), sourceName,
                  Append(scholarships, [url |-> fullUrl, source |-> sourceName]))
           ELSE ExtractLinks(Tail(links), sourceName, scholarships)

\* the candidates of a list that are not in the database (isNew)
NewIn(scholarships, existingUrls) ==
  Cardinality({i \in 1..Len(scholarships) : scholarships[i].url \notin existingUrls})

\* A response of the fetch layer to one page request: null (every attempt
\* failed, or the browser path threw), or a page with its final URL and links.
\* A request that ends on the requested URL can carry any links; one that ends
\* elsewhere carries no link or the first scholarship.
Responses(name, pageNo) ==
  {[kind |-> "null", finalUrl |-> LoginUrl, links |-> <<>>]}
    \cup [kind : {"ok"}, finalUrl : {PageUrl(name, pageNo)}, links : PageLinks]
    \cup [kind : {"ok"}, finalUrl : FinalUrls(name, pageNo) \ {PageUrl(name, pageNo)},
          links : {<<>>, <<1>>}]

\* One per-page scraper call (scrapeBold, scrapeBoldFallback,
\* scrapeScholarships360, scrapeScholarshipsCom): the list it returns, the
\* number of sharedState.newCount++ it performs, and how the request ended.
ScrapePage(name, currentPage, existingUrls, resp) ==
  IF resp.kind = "null"
  THEN [scholarships |-> <<>>, counted |-> 0, outcome |-> "failed"]
  ELSE IF checkRedirect(PageUrl(name, currentPage), resp.finalUrl, currentPage, name)
  THEN [scholarships |-> <<>>, counted |-> 0, outcome |-> "redirect"]
  ELSE LET scholarships == ExtractLinks(resp.links, name, <<>>)
       IN  [scholarships |-> scholarships,
            counted |-> NewIn(scholarships, existingUrls),
            outcome |-> "page"]

scrapeBold(currentPage, existingUrls, resp) ==
  ScrapePage("Bold.org", currentPage, existingUrls, resp)

scrapeScholarships360(currentPage, existingUrls, resp) ==
  ScrapePage("Scholarships360", currentPage, existingUrls, resp)

scrapeScholarshipsCom(currentPage, existingUrls, resp) ==
  ScrapePage("Scholarships.com", currentPage, existingUrls, resp)

\* scrapeGenericSource: one fetch of source.searchUrl, no redirect check, no
\* shared state
scrapeGenericSource(source, existingUrls, resp) ==
  IF resp.kind = "null"
  THEN [scholarships |-> <<>>, counted |-> 0, outcome |-> "failed"]
  ELSE [scholarships |-> ExtractLinks(resp.links, source.name, <<>>),
        counted |-> 0, outcome |-> "page"]

(***************************************************************************)
(* discoverScholarships of src/unnamed/part_008 (target-count orchestrator) *)
(***************************************************************************)
\* the sets of URLs the store can hold at the start of a run
ExistingChoices == {{}, {1}}

\* what one analyzeScholarship call can come to: a scholarship, a failure
\* result, a failure result reporting the exceeded quota, or an exception
AnalysisOutcomes == {"success", "failure", "quota", "threw"}

NoAnalysis == [defined |-> FALSE, list |-> <<>>]

NoResult ==
  [success |-> FALSE, scholarships |-> <<>>, analyzedScholarships |-> NoAnalysis,
   errors |-> <<>>, newCount |-> 0, duplicateCount |-> 0, sourceStats |-> <<>>]

\* sharedState.shouldStop()
shouldStopAbove(state) == state.newCount > state.targetCount

shouldStop(state) == state.newCount >= state.targetCount

InitialStats(source) ==
  [sourceId |-> source.id, sourceName |-> source.name, found |-> 0, new |-> 0,
   duplicates |-> 0, status |-> "success", error |-> "none"]

\* scholarships.filter(s => !existingUrlSet.has(s.url) &&
\*                          !allScholarships.some(existing => existing.url === s.url))
NewFromPageIgnoresCollected(scholarships, existingUrls, collected) ==
  SelectSeq(scholarships, LAMBDA sch : sch.url \notin existingUrls)

RECURSIVE NewFromPage(_, _, _)
NewFromPage(scholarships, existingUrls, collected) ==
  IF scholarships = <<>> THEN <<>>
  ELSE LET rest == NewFromPage(Tail(scholarships), existingUrls, collected)
           sch == Head(scholarships)
       IN  IF sch.url \notin existingUrls /\ ~SomeUrl(collected, sch.url)
           THEN <<sch>> \o rest ELSE rest

\* allScholarships.filter((scholarship, index, self) =>
\*   index === self.findIndex((s) => s.url === scholarship.url))
UniqueScholarshipsUnfiltered(all) == all

UniqueScholarships(all) ==
  LET keep == {i \in 1..Len(all) : FindIndex(all, all[i].url) = i}
      Nth(k) == CHOOSE i \in keep : Cardinality({j \in keep : j < i}) = k - 1
  IN  [k \in 1..Cardinality(keep) |-> all[Nth(k)]]

\* uniqueScholarships.filter((scholarship) => !existingUrlSet.has(scholarship.url))
NewScholarships(unique, existingUrls) ==
  NewFromPage(unique, existingUrls, <<>>)

\* newScholarships.slice(0, targetCount)
LimitedScholarships(newList, target) == Slice(newList, target)

\* the status update at the end of a page that did not reach the target
StatusAfterPage(stats, found, pageNo, maxPages) ==
  IF stats.status = "success" /\ found = 0 /\ pageNo > 1 THEN stats
  ELSE IF found = 0 /\ pageNo = maxPages
  THEN IF stats.found = 0
       THEN [stats EXCEPT !.status = "failed", !.error = "No scholarships found"]
       ELSE stats
  ELSE IF /\ stats.status = "success" /\ stats.new = 0 /\ stats.found > 0
          /\ pageNo = maxPages
  THEN [stats EXCEPT !.status = "partial", !.error = "All found were duplicates"]
  ELSE stats

\* errors.some(e => e.includes(source.name))
ErrorsMention(errs, sourceName) ==
  \E i \in 1..Len(errs) : errs[i].about = sourceName

\* a call discoverScholarships(userProfile, sourceIds, maxPagesPerSource,
\* targetCount) with targetCount one of targets
TCStart(targets) ==
  /\ maxPagesPerSource \in 1..MaxPagesPerSource
  /\ targetCount \in targets
  /\ existingUrlSet \in ExistingChoices
  /\ enabledSources \in SourceChoices
  /\ sharedState = [targetCount |-> targetCount, newCount |-> 0]
  /\ sourceStatsMap =
       [id \in {enabledSources[i].id : i \in 1..Len(enabledSources)} |->
          InitialStats(CHOOSE src \in {enabledSources[i] : i \in 1..Len(enabledSources)} :
                         src.id = id)]
  /\ allScholarships = <<>>
  /\ errors = <<>>
  /\ srcIdx = 1
  /\ page = 1
  /\ pc = "source"
  /\ limitedScholarships = <<>>
  /\ analyzedScholarships = NoAnalysis
  /\ analysisErrors = <<>>
  /\ analysisIdx = 0
  /\ result = NoResult
  /\ scraperCalls = <<>>
  /\ lastOutcome = "none"
  /\ analyzeCalls = <<>>
  /\ PGIdle
  /\ WPIdle
  /\ STIdle
  /\ NetIdle

TCInit == TCStart(0..MaxTargetCount)

tcInputs == <<maxPagesPerSource, targetCount, existingUrlSet, enabledSources>>
tcCalls == <<scraperCalls, lastOutcome>>
tcAnalysis ==
  <<limitedScholarships, analyzedScholarships, analysisErrors, analysisIdx,
    analyzeCalls>>

\* for (const source of enabledSources): the loop head and its shouldStop check
TCNextSource ==
  /\ pc = "source"
  /\ IF srcIdx > Len(enabledSources) \/ shouldStop(sharedState)
     THEN pc' = "collect" /\ page' = page
     ELSE pc' = "page" /\ page' = 1
  /\ UNCHANGED <<pgVars, notDiscovery, tcInputs, tcAnalysis, sharedState, sourceStatsMap,
                 allScholarships, errors, srcIdx, result, tcCalls>>

\* for (let page = 1; page <= maxPagesPerSource; page++): the loop ends, or
\* shouldStop() breaks it before the page is processed; after the loop,
\* shouldStop() breaks the source loop too
TCPagesEnd ==
  /\ pc = "page"
  /\ page > maxPagesPerSource \/ shouldStop(sharedState)
  /\ IF shouldStop(sharedState)
     THEN pc' = "collect" /\ srcIdx' = srcIdx
     ELSE pc' = "source" /\ srcIdx' = srcIdx + 1
  /\ UNCHANGED <<pgVars, notDiscovery, tcInputs, tcAnalysis, sharedState, sourceStatsMap,
                 allScholarships, errors, page, result, tcCalls>>

\* The body of the page loop when the try block completes: the scraper call
\* of the source (none for a generic source after page 1), the counting, the
\* stop check and the status update.
TCProcessPage ==
  /\ pc = "page"
  /\ page <= maxPagesPerSource
  /\ ~shouldStop(sharedState)
  /\ LET source == enabledSources[srcIdx]
         stats == sourceStatsMap[source.id]
     IN  \E resp \in Responses(source.name, page) :
           LET called == IsBuiltIn(source) \/ page = 1
               r == IF IsBold(source) THEN scrapeBold(page, existingUrlSet, resp)
                    ELSE IF IsS360(source)
                    THEN scrapeScholarships360(page, existingUrlSet, resp)
                    ELSE IF IsCom(source)
                    THEN scrapeScholarshipsCom(page, existingUrlSet, resp)
                    ELSE IF page = 1
                    THEN scrapeGenericSource(source, existingUrlSet, resp)
                    ELSE [scholarships |-> <<>>, counted |-> 0, outcome |-> "none"]
               scholarships == r.scholarships
               \* sharedState.newCount as the scraper leaves it (for a generic
               \* source: += newFromGeneric.length)
               afterScraper ==
                 IF IsBuiltIn(source) THEN sharedState.newCount + r.counted
                 ELSE sharedState.newCount + NewIn(scholarships, existingUrlSet)
               newFromPage == NewFromPage(scholarships, existingUrlSet, allScholarships)
               counted == [sharedState EXCEPT !.newCount = afterScraper + Len(newFromPage)]
               updated == [stats EXCEPT
                             !.found = @ + Len(scholarships),
                             !.new = @ + Len(newFromPage),
                             !.duplicates = @ + Len(scholarships) - Len(newFromPage)]
           IN  /\ called \/ resp.kind = "null"
               /\ sharedState' = counted
               /\ allScholarships' = allScholarships \o scholarships
               /\ scraperCalls' =
                    IF called
                    THEN Append(scraperCalls, [source |-> source.id, page |-> page])
                    ELSE scraperCalls
               /\ lastOutcome' = r.outcome
               /\ IF shouldStop(counted)
                  THEN /\ sourceStatsMap' = [sourceStatsMap EXCEPT ![source.id] = updated]
                       \* break, and the check after the page loop breaks again
                       /\ pc' = "collect"
                       /\ page' = page
                  ELSE /\ sourceStatsMap' =
                            [sourceStatsMap EXCEPT ![source.id] =
                               StatusAfterPage(updated, Len(scholarships), page,
                                               maxPagesPerSource)]
                       /\ pc' = "page"
                       /\ page' = page + 1
  /\ UNCHANGED <<pgVars, notDiscovery, tcInputs, tcAnalysis, errors, srcIdx, result>>

\* The body of the page loop when the scraper call throws: the catch block.
TCScraperThrowsEscapes ==
  /\ pc = "page"
  /\ page <= maxPagesPerSource
  /\ ~shouldStop(sharedState)
  /\ IsBuiltIn(enabledSources[srcIdx]) \/ page = 1
  /\ scraperCalls' =
       Append(scraperCalls, [source |-> enabledSources[srcIdx].id, page |-> page])
  /\ lastOutcome' = "threw"
  /\ pc' = "crashed"
  /\ UNCHANGED <<pgVars, notDiscovery, tcInputs, tcAnalysis, sharedState,
                 sourceStatsMap, allScholarships, errors, srcIdx, page, result>>

TCScraperThrowsSkipsPage ==
  /\ pc = "page"
  /\ page <= maxPagesPerSource
  /\ ~shouldStop(sharedState)
  /\ IsBuiltIn(enabledSources[srcIdx]) \/ page = 1
  /\ scraperCalls' =
       Append(scraperCalls, [source |-> enabledSources[srcIdx].id, page |-> page])
  /\ lastOutcome' = "threw"
  /\ page' = page + 2
  /\ UNCHANGED <<pgVars, notDiscovery, tcInputs, tcAnalysis, sharedState,
                 sourceStatsMap, allScholarships, errors, srcIdx, pc, result>>

TCScraperThrows ==
  /\ pc = "page"
  /\ page <= maxPagesPerSource
  /\ ~shouldStop(sharedState)
  /\ LET source == enabledSources[srcIdx]
     IN  /\ IsBuiltIn(source) \/ page = 1
         /\ sourceStatsMap' =
              [sourceStatsMap EXCEPT ![source.id].status = "failed",
                                     ![source.id].error = "thrown"]
         /\ errors' =
              IF ~ErrorsMention(errors, source.name)
              THEN Append(errors, [kind |-> "source", about |-> source.name])
              ELSE errors
         /\ scraperCalls' =
              Append(scraperCalls, [source |-> source.id, page |-> page])
         /\ lastOutcome' = "threw"
  /\ page' = page + 1
  /\ UNCHANGED <<pgVars, notDiscovery, tcInputs, tcAnalysis, sharedState, allScholarships, srcIdx, pc,
                 result>>

\* sourceStats, in the insertion order of sourceStatsMap
SourceStatsList ==
  [i \in 1..Len(enabledSources) |-> sourceStatsMap[enabledSources[i].id]]

DiscoveryResult(limited, analyzed, errs) ==
  LET uniqueScholarships == UniqueScholarships(allScholarships)
      newScholarships == NewScholarships(uniqueScholarships, existingUrlSet)
  IN  [success |-> Len(uniqueScholarships) > 0 \/ Len(errs) = 0,
       scholarships |-> limited,
       analyzedScholarships |-> analyzed,
       errors |-> errs,
       newCount |-> Len(limited),
       duplicateCount |-> Len(uniqueScholarships) - Len(newScholarships),
       sourceStats |-> SourceStatsList]

\* whether the run analyzes what it found
StartsAnalysisNonEmpty(limited, target) == Len(limited) > 0

StartsAnalysis(limited, target) == Len(limited) = target /\ Len(limited) > 0

\* After the source loop: deduplicate, drop the known URLs, truncate, and
\* either start the analysis batch or return.
TCCollect ==
  /\ pc = "collect"
  /\ LET uniqueScholarships == UniqueScholarships(allScholarships)
         newScholarships == NewScholarships(uniqueScholarships, existingUrlSet)
         limited == LimitedScholarships(newScholarships, targetCount)
     IN  /\ limitedScholarships' = limited
         /\ IF StartsAnalysis(limited, targetCount)
            THEN /\ analyzedScholarships' = [defined |-> TRUE, list |-> <<>>]
                 /\ pc' = "analyze"
                 /\ result' = result
            ELSE /\ analyzedScholarships' = analyzedScholarships
                 /\ pc' = "done"
                 /\ result' = DiscoveryResult(limited, analyzedScholarships, errors)
  /\ UNCHANGED <<pgVars, notDiscovery, tcInputs, sharedState, sourceStatsMap, allScholarships, errors,
                 srcIdx, page, analysisErrors, analysisIdx, analyzeCalls,
                 tcCalls>>

\* i after an iteration of for (let i = 0; i < limitedScholarships.length; i++)
\* whose analyzeScholarship call came to outcome
NextAnalysisIdxAbort(idx, outcome, length) ==
  IF outcome = "success" THEN idx + 1 ELSE length

NextAnalysisIdx(idx, outcome, length) == idx + 1

\* one iteration of the analysis loop: analyzeScholarship(scholarship.url)
TCAnalyze ==
  /\ pc = "analyze"
  /\ analysisIdx < Len(limitedScholarships)
  /\ LET scholarship == limitedScholarships[analysisIdx + 1]
     IN  \E outcome \in AnalysisOutcomes :
           /\ analyzeCalls' = Append(analyzeCalls, scholarship.url)
           /\ IF outcome = "success"
              THEN /\ analyzedScholarships' =
                        [analyzedScholarships EXCEPT
                           !.list = Append(@, [url |-> scholarship.url])]
                   /\ analysisErrors' = analysisErrors
              ELSE /\ analyzedScholarships' = analyzedScholarships
                   /\ analysisErrors' =
                        Append(analysisErrors,
                               [kind |-> IF outcome = "quota" THEN "quota"
                                         ELSE "analysis",
                                about |-> scholarship.url])
           /\ analysisIdx' =
                NextAnalysisIdx(analysisIdx, outcome, Len(limitedScholarships))
  /\ UNCHANGED <<pgVars, notDiscovery, tcInputs, sharedState, sourceStatsMap, allScholarships, errors,
                 srcIdx, page, pc, limitedScholarships, result, tcCalls>>

\* the analysis loop is over: errors.push(...analysisErrors) and return
TCReturn ==
  /\ pc = "analyze"
  /\ analysisIdx >= Len(limitedScholarships)
  /\ errors' = errors \o analysisErrors
  /\ result' = DiscoveryResult(limitedScholarships, analyzedScholarships,
                               errors \o analysisErrors)
  /\ pc' = "done"
  /\ UNCHANGED <<pgVars, notDiscovery, tcInputs, tcAnalysis, sharedState, sourceStatsMap,
                 allScholarships, srcIdx, page, tcCalls>>

TCNext ==
  \/ TCNextSource
  \/ TCPagesEnd
  \/ TCProcessPage
  \/ TCScraperThrows
  \/ TCCollect
  \/ TCAnalyze
  \/ TCReturn

SpecTC == TCInit /\ [][TCNext]_vars

(***************************************************************************)
(* Properties of the target-count orchestrator.                            *)
(***************************************************************************)
\* the URLs collected so far that the store did not know
CollectedNewUrls == Urls(allScholarships) \ existingUrlSet

\* the place of the first occurrence of a URL among everything collected
FirstSeen(url) == FindIndex(allScholarships, url)

\* the sources whose page loop called a scraper
ProcessedSources == {scraperCalls[i].source : i \in 1..Len(scraperCalls)}

NoScraperThrew == \A i \in 1..Len(errors) : errors[i].kind # "source"

\* C2: a returned run holds at most targetCount scholarships, reports their
\* number as newCount, and the list is a prefix, in discovery order, of the
\* distinct new URLs collected: its URLs are new, in order of first discovery,
\* and no new URL discovered before its last one is left out.
C2_BudgetRespected ==
  pc = "done" =>
    LET list == result.scholarships
    IN  /\ Len(list) <= targetCount
        /\ result.newCount = Len(list)
        /\ \A i \in 1..Len(list) : list[i].url \in CollectedNewUrls
        /\ \A i \in 1..(Len(list) - 1) :
             FirstSeen(list[i].url) < FirstSeen(list[i + 1].url)
        /\ \A u \in CollectedNewUrls :
             (Len(list) > 0 /\ FirstSeen(u) < FirstSeen(list[Len(list)].url))
               => u \in Urls(list)

\* a run that found more new URLs than its target and returned targetCount of them
C2_Witness ==
  /\ pc = "done"
  /\ targetCount >= 1
  /\ Cardinality(CollectedNewUrls) > targetCount
  /\ Len(result.scholarships) = targetCount

\* C3: once sharedState.newCount >= sharedState.targetCount, no step of the
\* run invokes a per-page scraper.
C3_NoRequestAfterTarget ==
  [][sharedState.newCount >= sharedState.targetCount
       => scraperCalls' = scraperCalls]_vars

\* the target was reached while a page and a source were still to come
C3_Witness ==
  /\ pc = "done"
  /\ sharedState.newCount >= sharedState.targetCount
  /\ Len(scraperCalls) = 1
  /\ maxPagesPerSource > 1
  /\ Len(enabledSources) > 1

\* C4: after every page, sharedState.newCount is the number of distinct new
\* URLs collected so far.
C4_NewCountIsDistinctNew ==
  sharedState.newCount = Cardinality(CollectedNewUrls)

\* C5: after a request for page N > 1 of a source ended in a detected
\* redirect, the next scraper call, if any, is for another source.
C5_RedirectStopsSource ==
  [][(lastOutcome = "redirect" /\ scraperCalls' # scraperCalls)
       => scraperCalls'[Len(scraperCalls')].source
            # scraperCalls[Len(scraperCalls)].source]_vars

\* the classification of a source by its counts
StatusOf(stats) ==
  IF stats.found = 0 THEN "failed"
  ELSE IF stats.new = 0 THEN "partial"
  ELSE "success"

\* C6: when a run in which no scraper threw has returned, every processed
\* source is reported with the status its counts call for.
C6_StatusClassification ==
  (pc = "done" /\ NoScraperThrew) =>
    \A i \in 1..Len(result.sourceStats) :
      result.sourceStats[i].sourceId \in ProcessedSources
        => result.sourceStats[i].status = StatusOf(result.sourceStats[i])

\* C10: the analysis batch is started exactly when the truncated list has
\* targetCount items and is not empty; otherwise analyzedScholarships stays
\* undefined and analyzeScholarship is never called.
C10_AnalysisOnlyOnFullTarget ==
  /\ pc \in {"analyze", "done"} =>
       (analyzedScholarships.defined <=>
          (Len(limitedScholarships) = targetCount /\ Len(limitedScholarships) > 0))
  /\ ~analyzedScholarships.defined => analyzeCalls = <<>>
  /\ pc = "done" =>
       /\ result.analyzedScholarships.defined = analyzedScholarships.defined
       /\ result.scholarships = limitedScholarships

\* a run that found new scholarships, fewer than its target, and returned
\* them without analysis
C10_Witness ==
  /\ pc = "done"
  /\ Len(result.scholarships) > 0
  /\ Len(result.scholarships) < targetCount
  /\ ~result.analyzedScholarships.defined
  /\ analyzeCalls = <<>>

\* the URLs the analysis errors are about
AnalysisErrorUrls == {analysisErrors[i].about : i \in 1..Len(analysisErrors)}

\* C11: while and after the analysis batch runs, analyzeScholarship has been
\* called once for each of the first analysisIdx items of the truncated
\* list, in list order; every call left one entry, in analyzedScholarships
\* when it succeeded and in the analysis errors otherwise; a returned run
\* has called it for every item and reports every error.
C11_EveryItemAnalyzedOnce ==
  analyzedScholarships.defined =>
    /\ analysisIdx <= Len(limitedScholarships)
    /\ analyzeCalls = [i \in 1..analysisIdx |-> limitedScholarships[i].url]
    /\ Len(analyzedScholarships.list) + Len(analysisErrors) = Len(analyzeCalls)
    /\ Urls(analyzedScholarships.list) \cup AnalysisErrorUrls
         = {analyzeCalls[i] : i \in 1..Len(analyzeCalls)}
    /\ Urls(analyzedScholarships.list) \cap AnalysisErrorUrls = {}
    /\ pc = "done" =>
         /\ analysisIdx = Len(limitedScholarships)
         /\ result.analyzedScholarships = analyzedScholarships
         /\ \A i \in 1..Len(analysisErrors) :
              \E j \in 1..Len(result.errors) : result.errors[j] = analysisErrors[i]

\* a batch of two whose first call failed and whose second call succeeded
C11_Witness ==
  /\ pc = "done"
  /\ Len(limitedScholarships) = 2
  /\ Len(analyzeCalls) = 2
  /\ analysisErrors # <<>>
  /\ analysisErrors[1].about = limitedScholarships[1].url
  /\ Urls(analyzedScholarships.list) = {limitedScholarships[2].url}

\* C12: in the analysis batch of discoverScholarships, once a call has failed
\* with a quota-exceeded error, no further analyzeScholarship call is made.
C12_QuotaStopsBatch ==
  [][(\E i \in 1..Len(analysisErrors) : analysisErrors[i].kind = "quota")
       => analyzeCalls' = analyzeCalls]_vars

\* C18: when the first three pages requested from a source have yielded no
\* candidate (nothing has been collected in the run), no fourth page of that
\* source is requested.
C18_ThreeEmptyPagesStopSource ==
  (Len(scraperCalls) >= 4 /\ allScholarships = <<>>) =>
    scraperCalls[4].source # scraperCalls[1].source

(***************************************************************************)
(* The per-source paginators of src/app/actions/discoverScholarships.ts    *)
(* and the discoverScholarships that calls each of them once per source.   *)
(***************************************************************************)
\* the largest maxPagesPerSource of a run over one source, of a short run over
\* one source, and of a run over two sources
LongRun == 25
ShortRun == 4
TwoSourceRun == 2
\* the listing pages whose content is unconstrained; a later page p links to
\* the one known scholarship Known(p)
FreePages == 3

\* thresholds of scrapeBold and scrapeScholarships360
maxConsecutiveDuplicatePages == 20
minPagesToScanAboveStreak == 20 + 5
minPagesToScan == 15
maxConsecutiveEmptyPagesPlusOne == 3 + 1
maxConsecutiveEmptyPages == 3
\* maxConsecutiveDuplicatePages of scrapeScholarshipsCom
comMaxConsecutiveDuplicatePages == 10

\* the scholarship URLs of listing page p: one the store may know, one it
\* never knows
Known(p) == 2 * p - 1
Fresh(p) == 2 * p
KnownUrls == {Known(p) : p \in 1..(LongRun + 1)}

\* the candidate links listing page p can carry, in document order
PGLinks(p) ==
  IF p <= FreePages
  THEN {<<>>, <<Known(p)>>, <<Fresh(p)>>, <<Fresh(1), Known(p)>>,
        <<Fresh(p), Fresh(p)>>}
  ELSE {<<Known(p)>>}

\* what fetchWithPuppeteer / fetchWithRetry yield for listing page p: null or
\* the page
PGFetches(p) ==
  {[ok |-> TRUE, links |-> l] : l \in PGLinks(p)}
    \cup (IF p <= FreePages THEN {[ok |-> FALSE, links |-> <<>>]} ELSE {})

\* [...scholarshipSources, ...customSources]
allSources == <<SourceTable[2], SourceTable[3], SourceTable[4], SourceTable[1]>>

\* allSources.filter(s => s.enabled && sourceIds.includes(s.id)) for the
\* sourceIds a run is given: none, one, or two neighbours
PGSourceChoices ==
  {<<>>} \cup {<<allSources[i]>> : i \in 1..Len(allSources)}
    \cup {<<allSources[i], allSources[i + 1]>> : i \in 1..(Len(allSources) - 1)}

\* the links.each loop of scrapeBoldFallback: a link is pushed unless the list
\* holds its URL or the store knows it
RECURSIVE ExtractNewLinks(_, _, _, _)
ExtractNewLinks(links, sourceName, list, existingUrls) ==
  IF links = <<>> THEN list
  ELSE LET fullUrl == Head(links)
       IN  IF ~SomeUrl(list, fullUrl) /\ fullUrl \notin existingUrls
           THEN ExtractNewLinks(Tail(links), sourceName,
                  Append(list, [url |-> fullUrl, source |-> sourceName]),
                  existingUrls)
           ELSE ExtractNewLinks(Tail(links), sourceName, list, existingUrls)

\* The counters of scrapeBold and scrapeScholarships360 after a scanned page
\* (totalPagesScanned already incremented): the empty-page block, then the
\* duplicate-page block.  stop names the break taken, "none" when the loop
\* goes on.
PageVerdict(foundOnPage, newOnPage, emptyPages, duplicatePages, pagesScanned) ==
  IF foundOnPage = 0
  THEN IF emptyPages + 1 >= maxConsecutiveEmptyPages
       THEN [empty |-> emptyPages + 1, dup |-> duplicatePages, stop |-> "empty"]
       ELSE [empty |-> emptyPages + 1, dup |-> 0, stop |-> "none"]
  ELSE IF newOnPage = 0
  THEN IF /\ duplicatePages + 1 >= maxConsecutiveDuplicatePages
          /\ pagesScanned >= minPagesToScan
       THEN [empty |-> 0, dup |-> duplicatePages + 1, stop |-> "duplicates"]
       ELSE [empty |-> 0, dup |-> duplicatePages + 1, stop |-> "none"]
  ELSE [empty |-> 0, dup |-> 0, stop |-> "none"]

\* what the paginator recorded of a scanned page; next is what the iteration
\* of the click-Next loop of scrapeBold did about the Next button after the
\* scan ("none" when it did not look for it)
Scan(pageNo, fetched, foundOnPage, newOnPage) ==
  [page |-> pageNo, fetched |-> fetched, found |-> foundOnPage, new |-> newOnPage,
   next |-> "none"]

pgOrchestrator ==
  <<maxPagesPerSource, existingUrlSet, enabledSources, allScholarships, errors,
    srcIdx, result, sourceStats, browserAvailable, scraper>>

tcOnly ==
  <<targetCount, sharedState, sourceStatsMap, limitedScholarships,
    analyzedScholarships, analysisErrors, analysisIdx, scraperCalls,
    lastOutcome, analyzeCalls>>

InLoop(name) ==
  /\ pc = "pg_scrape"
  /\ scraper = name
  /\ stopReason = "none"
  /\ page <= maxPagesPerSource

\* one iteration of the page loop of scrapeScholarships360
PGScan360 ==
  /\ InLoop("scholarships360")
  /\ \E html \in PGFetches(page) :
       IF ~html.ok
       THEN /\ consecutiveEmptyPages' = consecutiveEmptyPages + 1
            /\ stopReason' =
                 IF consecutiveEmptyPages + 1 >= maxConsecutiveEmptyPages
                 THEN "empty" ELSE "none"
            /\ page' =
                 IF consecutiveEmptyPages + 1 >= maxConsecutiveEmptyPages
                 THEN page ELSE page + 1
            /\ scans' = Append(scans, Scan(page, FALSE, 0, 0))
            /\ UNCHANGED <<scrapedScholarships, consecutiveDuplicatePages,
                           totalPagesScanned, totalNewFound>>
       ELSE LET after == ExtractLinks(html.links, "Scholarships360",
                                      scrapedScholarships)
                foundOnPage == Len(after) - Len(scrapedScholarships)
                newOnPage == NewIn(after, existingUrlSet)
                               - NewIn(scrapedScholarships, existingUrlSet)
                v == PageVerdict(foundOnPage, newOnPage, consecutiveEmptyPages,
                                 consecutiveDuplicatePages, totalPagesScanned + 1)
            IN  /\ scrapedScholarships' = after
                /\ totalPagesScanned' = totalPagesScanned + 1
                /\ consecutiveEmptyPages' = v.empty
                /\ consecutiveDuplicatePages' = v.dup
                /\ totalNewFound' = totalNewFound + newOnPage
                /\ stopReason' = v.stop
                /\ page' = IF v.stop = "none" THEN page + 1 ELSE page
                /\ scans' = Append(scans, Scan(page, TRUE, foundOnPage, newOnPage))
  /\ UNCHANGED <<pgOrchestrator, tcOnly, notDiscovery, browserPage, pc>>

\* what the click on the Next button can come to: no button is found, the
\* click throws, or it is made
ClickOutcomes == {"noButton", "throws", "clicked"}

\* The tab after a click made while it shows listing page pageNo: its URL is
\* the same or another, and it shows the same links or those of the next page.
\* The number of a[href*="/scholarships/"] anchors is taken to be the number
\* of candidate links.
TabsAfterClick(tab, pageNo) ==
  [open : {TRUE}, loc : {tab.loc, tab.loc + 1},
   links : PGLinks(pageNo + 1) \cup {tab.links}]

\* One iteration of the page loop of scrapeBold (browser path): read the tab,
\* count, and, unless the iteration ends in continue or break, click Next.
PGScanBold ==
  /\ InLoop("bold")
  /\ LET after == ExtractLinks(browserPage.links, "Bold.org", scrapedScholarships)
         foundOnPage == Len(after) - Len(scrapedScholarships)
         newOnPage == NewIn(after, existingUrlSet)
                        - NewIn(scrapedScholarships, existingUrlSet)
         v == PageVerdict(foundOnPage, newOnPage, consecutiveEmptyPages,
                          consecutiveDuplicatePages, totalPagesScanned + 1)
         scanned(next) ==
           Append(scans, [Scan(page, TRUE, foundOnPage, newOnPage)
                            EXCEPT !.next = next])
     IN  /\ scrapedScholarships' = after
         /\ totalPagesScanned' = totalPagesScanned + 1
         /\ consecutiveEmptyPages' = v.empty
         /\ consecutiveDuplicatePages' = v.dup
         /\ totalNewFound' = totalNewFound + newOnPage
         /\ IF v.stop # "none"
            THEN \* break
                 /\ stopReason' = v.stop
                 /\ scans' = scanned("none")
                 /\ UNCHANGED <<page, browserPage>>
            ELSE IF foundOnPage = 0 \/ page >= maxPagesPerSource
            THEN \* continue, or the last page: no click
                 /\ stopReason' = "none"
                 /\ page' = page + 1
                 /\ scans' = scanned("none")
                 /\ UNCHANGED browserPage
            ELSE \E click \in ClickOutcomes :
                   /\ scans' = scanned(click)
                   /\ IF click = "noButton"
                      THEN \* foundOnPage > 0 here: the loop goes on
                           /\ stopReason' = "none"
                           /\ page' = page + 1
                           /\ UNCHANGED browserPage
                      ELSE IF click = "throws"
                      THEN /\ stopReason' = "clickFailed"
                           /\ UNCHANGED <<page, browserPage>>
                      ELSE \E tab \in TabsAfterClick(browserPage, page) :
                             /\ browserPage' = tab
                             /\ IF /\ tab.loc = browserPage.loc
                                   /\ Len(tab.links) = Len(browserPage.links)
                                THEN stopReason' = "pageUnchanged" /\ page' = page
                                ELSE stopReason' = "none" /\ page' = page + 1
  /\ UNCHANGED <<pgOrchestrator, tcOnly, notDiscovery, pc>>

\* a browser call of scrapeBold throws inside its try block: the outer catch
\* logs, and the list collected so far is returned with the tab left open
PGBoldCatch ==
  /\ InLoop("bold")
  /\ stopReason' = "exception"
  /\ UNCHANGED <<pgOrchestrator, tcOnly, notDiscovery, pc, page, scrapedScholarships,
                 consecutiveDuplicatePages, consecutiveEmptyPages,
                 totalPagesScanned, totalNewFound, browserPage, scans>>

\* one iteration of the page loop of scrapeBoldFallback
PGScanBoldFallback ==
  /\ InLoop("boldFallback")
  /\ \E html \in PGFetches(page) :
       IF ~html.ok
       THEN /\ stopReason' = "fetchFailed"
            /\ scans' = Append(scans, Scan(page, FALSE, 0, 0))
            /\ UNCHANGED <<page, scrapedScholarships>>
       ELSE LET after == ExtractNewLinks(html.links, "Bold.org",
                                         scrapedScholarships, existingUrlSet)
                foundOnPage == Len(after) - Len(scrapedScholarships)
            IN  /\ scrapedScholarships' = after
                /\ scans' = Append(scans, Scan(page, TRUE, foundOnPage, foundOnPage))
                /\ IF Len(after) = 0 /\ page > 1
                   THEN stopReason' = "empty" /\ page' = page
                   ELSE stopReason' = "none" /\ page' = page + 1
  /\ UNCHANGED <<pgOrchestrator, tcOnly, notDiscovery, pc, consecutiveDuplicatePages,
                 consecutiveEmptyPages, totalPagesScanned, totalNewFound,
                 browserPage>>

\* one iteration of the page loop of scrapeScholarshipsCom
PGScanCom ==
  /\ InLoop("scholarshipscom")
  /\ \E html \in PGFetches(page) :
       IF ~html.ok
       THEN /\ stopReason' = "fetchFailed"
            /\ scans' = Append(scans, Scan(page, FALSE, 0, 0))
            /\ UNCHANGED <<page, scrapedScholarships, consecutiveDuplicatePages,
                           totalNewFound>>
       ELSE LET after == ExtractLinks(html.links, "Scholarships.com",
                                      scrapedScholarships)
                foundOnPage == Len(after) - Len(scrapedScholarships)
                newOnPage == NewIn(after, existingUrlSet)
                               - NewIn(scrapedScholarships, existingUrlSet)
                duplicatePages == IF foundOnPage = 0 THEN consecutiveDuplicatePages
                                  ELSE IF newOnPage = 0
                                  THEN consecutiveDuplicatePages + 1
                                  ELSE 0
                stop == IF foundOnPage = 0 THEN "empty"
                        ELSE IF /\ newOnPage = 0
                                /\ duplicatePages >= comMaxConsecutiveDuplicatePages
                        THEN "duplicates"
                        ELSE "none"
            IN  /\ scrapedScholarships' = after
                /\ scans' = Append(scans, Scan(page, TRUE, foundOnPage, newOnPage))
                /\ consecutiveDuplicatePages' = duplicatePages
                /\ totalNewFound' = totalNewFound + newOnPage
                /\ stopReason' = stop
                /\ page' = IF stop = "none" THEN page + 1 ELSE page
  /\ UNCHANGED <<pgOrchestrator, tcOnly, notDiscovery, pc, consecutiveEmptyPages,
                 totalPagesScanned, browserPage>>

\* scrapeGenericSource: one fetch of source.searchUrl, whatever maxPages is
PGScanGeneric ==
  /\ InLoop("generic")
  /\ \E html \in PGFetches(1) :
       LET list == IF html.ok
                   THEN ExtractLinks(html.links, enabledSources[srcIdx].name, <<>>)
                   ELSE <<>>
       IN  /\ scrapedScholarships' = list
           /\ scans' = Append(scans, Scan(1, html.ok, Len(list),
                                          NewIn(list, existingUrlSet)))
           /\ stopReason' = IF html.ok THEN "single" ELSE "fetchFailed"
  /\ UNCHANGED <<pgOrchestrator, tcOnly, notDiscovery, pc, page,
                 consecutiveDuplicatePages, consecutiveEmptyPages,
                 totalPagesScanned, totalNewFound, browserPage>>

(***************************************************************************)
(* discoverScholarships of src/app/actions/discoverScholarships.ts         *)
(***************************************************************************)
PGInit ==
  /\ enabledSources \in PGSourceChoices
  /\ maxPagesPerSource \in
       (IF Len(enabledSources) <= 1 THEN (1..ShortRun) \cup {LongRun}
        ELSE 1..TwoSourceRun)
  /\ existingUrlSet \in {{}, KnownUrls}
  /\ browserAvailable \in BOOLEAN
  /\ allScholarships = <<>>
  /\ errors = <<>>
  /\ sourceStats = <<>>
  /\ srcIdx = 1
  /\ page = 1
  /\ pc = "pg_source"
  /\ result = NoResult
  /\ scraper = "none"
  /\ scrapedScholarships = <<>>
  /\ consecutiveDuplicatePages = 0
  /\ consecutiveEmptyPages = 0
  /\ totalPagesScanned = 0
  /\ totalNewFound = 0
  /\ browserPage = NoTab
  /\ scans = <<>>
  /\ stopReason = "none"
  \* the target-count orchestrator is not part of such a run
  /\ targetCount = 0
  /\ sharedState = [targetCount |-> 0, newCount |-> 0]
  /\ sourceStatsMap = <<>>
  /\ limitedScholarships = <<>>
  /\ analyzedScholarships = NoAnalysis
  /\ analysisErrors = <<>>
  /\ analysisIdx = 0
  /\ scraperCalls = <<>>
  /\ lastOutcome = "none"
  /\ analyzeCalls = <<>>
  /\ WPIdle
  /\ STIdle
  /\ NetIdle

\* the scraper the switch on source.id calls
ScraperOf(source) ==
  IF source.id = "bold"
  THEN IF browserAvailable THEN "bold" ELSE "boldFallback"
  ELSE IF source.id = "scholarships360" THEN "scholarships360"
  ELSE IF source.id = "scholarshipscom" THEN "scholarshipscom"
  ELSE "generic"

\* for (const source of enabledSources): the scraper of the source is entered
\* with fresh locals; scrapeBold opens its tab on the first listing page
PGStartSource ==
  /\ pc = "pg_source"
  /\ srcIdx <= Len(enabledSources)
  /\ scraper' = ScraperOf(enabledSources[srcIdx])
  /\ IF ScraperOf(enabledSources[srcIdx]) = "bold"
     THEN \E links \in PGLinks(1) :
            browserPage' = [open |-> TRUE, loc |-> 1, links |-> links]
     ELSE browserPage' = browserPage
  /\ scrapedScholarships' = <<>>
  /\ consecutiveDuplicatePages' = 0
  /\ consecutiveEmptyPages' = 0
  /\ totalPagesScanned' = 0
  /\ totalNewFound' = 0
  /\ scans' = <<>>
  /\ stopReason' = "none"
  /\ page' = 1
  /\ pc' = "pg_scrape"
  /\ UNCHANGED <<maxPagesPerSource, existingUrlSet, enabledSources,
                 allScholarships, errors, srcIdx, result, sourceStats,
                 browserAvailable, tcOnly, notDiscovery>>

\* stats of a source whose scraper returned list
StatsOfSource(source, list, existingUrls) ==
  LET found == Len(list)
      new == NewIn(list, existingUrls)
      stats == [InitialStats(source) EXCEPT
                  !.found = found, !.new = new, !.duplicates = found - new]
  IN  IF found = 0
      THEN [stats EXCEPT !.status = "failed", !.error = "No scholarships found"]
      ELSE IF new = 0
      THEN [stats EXCEPT !.status = "partial", !.error = "All found were duplicates"]
      ELSE stats

\* the scraper returns its list (its loop ended or broke; scrapeBold closes its
\* tab unless its catch block was taken) and the try block of the source
\* completes
PGScraperReturns ==
  /\ pc = "pg_scrape"
  /\ stopReason # "none" \/ page > maxPagesPerSource
  /\ LET source == enabledSources[srcIdx]
     IN  /\ sourceStats' =
              Append(sourceStats,
                     StatsOfSource(source, scrapedScholarships, existingUrlSet))
         /\ allScholarships' = allScholarships \o scrapedScholarships
  /\ browserPage' =
       IF scraper = "bold" /\ stopReason # "exception" THEN NoTab ELSE browserPage
  /\ stopReason' = IF stopReason = "none" THEN "maxPages" ELSE stopReason
  /\ srcIdx' = srcIdx + 1
  /\ pc' = "pg_source"
  /\ UNCHANGED <<maxPagesPerSource, existingUrlSet, enabledSources, errors,
                 result, browserAvailable, scraper, scrapedScholarships,
                 consecutiveDuplicatePages, consecutiveEmptyPages,
                 totalPagesScanned, totalNewFound, scans, page, tcOnly, notDiscovery>>

\* an exception escapes the scraper: the catch block of the source
PGScraperThrows ==
  /\ pc = "pg_scrape"
  /\ stopReason = "none"
  /\ page <= maxPagesPerSource
  /\ LET source == enabledSources[srcIdx]
     IN  /\ sourceStats' =
              Append(sourceStats,
                     [InitialStats(source) EXCEPT
                        !.status = "failed", !.error = "thrown"])
         /\ errors' = Append(errors, [kind |-> "source", about |-> source.name])
  /\ stopReason' = "threw"
  /\ srcIdx' = srcIdx + 1
  /\ pc' = "pg_source"
  /\ UNCHANGED <<maxPagesPerSource, existingUrlSet, enabledSources,
                 allScholarships, result, browserAvailable, scraper,
                 scrapedScholarships, consecutiveDuplicatePages,
                 consecutiveEmptyPages, totalPagesScanned, totalNewFound,
                 browserPage, scans, page, tcOnly, notDiscovery>>

\* after the source loop: deduplicate, drop the known URLs, return
PGReturn ==
  /\ pc = "pg_source"
  /\ srcIdx > Len(enabledSources)
  /\ LET uniqueScholarships == UniqueScholarships(allScholarships)
         newScholarships == NewScholarships(uniqueScholarships, existingUrlSet)
     IN  result' =
           [success |-> Len(uniqueScholarships) > 0 \/ Len(errors) = 0,
            scholarships |-> newScholarships,
            analyzedScholarships |-> NoAnalysis,
            errors |-> errors,
            newCount |-> Len(newScholarships),
            duplicateCount |-> Len(uniqueScholarships) - Len(newScholarships),
            sourceStats |-> sourceStats]
  /\ pc' = "done"
  /\ UNCHANGED <<maxPagesPerSource, existingUrlSet, enabledSources,
                 allScholarships, errors, srcIdx, sourceStats, browserAvailable,
                 scraper, scrapedScholarships, consecutiveDuplicatePages,
                 consecutiveEmptyPages, totalPagesScanned, totalNewFound,
                 browserPage, scans, stopReason, page, tcOnly, notDiscovery>>

PGNext ==
  \/ PGStartSource
  \/ PGScan360
  \/ PGScanBold
  \/ PGBoldCatch
  \/ PGScanBoldFallback
  \/ PGScanCom
  \/ PGScanGeneric
  \/ PGScraperReturns
  \/ PGScraperThrows
  \/ PGReturn

SpecPG == PGInit /\ [][PGNext]_vars

(***************************************************************************)
(* Properties of the paginators.                                           *)
(***************************************************************************)
\* the paginator running, or the last one run, is scrapeScholarships360 or
\* the browser path of scrapeBold
StreakPaginator == scraper \in {"scholarships360", "bold"}

\* the first n scanned pages are pages 1..n and none of them yielded a candidate
FirstPagesEmpty(n) ==
  /\ Len(scans) >= n
  /\ \A i \in 1..n : scans[i].page = i /\ scans[i].found = 0

\* every page scanned so far yielded a candidate, and only known ones
OnlyDuplicatePages ==
  /\ Len(scans) >= 1
  /\ \A i \in 1..Len(scans) :
       scans[i].fetched /\ scans[i].found >= 1 /\ scans[i].new = 0

\* C7: in scrapeScholarships360 and scrapeBold with maxPages >= 4, when pages
\* 1, 2 and 3 each yielded no candidate, the paginator has left its loop
\* through the empty-page break after page 3: no fourth page is scanned.
\* Without a browser scrapeBold runs scrapeBoldFallback, which scans no fourth
\* page either once its first pages yielded nothing.
C7_ThreeEmptyPagesStop ==
  /\ (StreakPaginator /\ maxPagesPerSource >= 4 /\ FirstPagesEmpty(3)) =>
       /\ Len(scans) = 3
       /\ stopReason = "empty"
  /\ (scraper = "boldFallback" /\ maxPagesPerSource >= 4
        /\ FirstPagesEmpty(Len(scans))) =>
       Len(scans) <= 3

\* scrapeBold returned after three pages without a candidate although more
\* pages were allowed
C7_Witness ==
  /\ scraper = "bold"
  /\ maxPagesPerSource >= 4
  /\ FirstPagesEmpty(3)
  /\ pc = "done"
  /\ result.sourceStats[1].status = "failed"

\* C8: in scrapeScholarships360 and scrapeBold with maxPages >= 25, while
\* every scanned page yielded candidates that are all known, at most 20 pages
\* are scanned, and the paginator leaves its loop of its own accord (not by an
\* exception) only once it has scanned 15 pages.
C8_DuplicateStreakFloor ==
  (StreakPaginator /\ maxPagesPerSource >= 25 /\ OnlyDuplicatePages) =>
    /\ Len(scans) <= 20
    /\ stopReason \in {"empty", "duplicates", "pageUnchanged", "maxPages"}
         => Len(scans) >= 15

\* the page scanned last
LastScan == scans[Len(scans)]

\* C19: in scrapeBoldFallback, scrapeScholarships360 and
\* scrapeScholarshipsCom a page before the last one whose fetch failed is
\* counted as an empty page and is never by itself the reason the paginator
\* leaves its loop.
C19_FailedPageContinues ==
  (/\ scraper \in {"boldFallback", "scholarships360", "scholarshipscom"}
   /\ Len(scans) >= 1
   /\ ~LastScan.fetched
   /\ LastScan.page < maxPagesPerSource) =>
    /\ stopReason # "fetchFailed"
    /\ stopReason = "empty" =>
         Len(scans) >= maxConsecutiveEmptyPages

\* C20: in scrapeScholarships360 and scrapeBold, after a page without a
\* candidate (or whose fetch failed) that did not stop the paginator,
\* consecutiveDuplicatePages is 0; after a page with a new candidate,
\* consecutiveEmptyPages and consecutiveDuplicatePages are 0.
C20_StreaksReset ==
  (StreakPaginator /\ Len(scans) >= 1 /\ pc = "pg_scrape") =>
    /\ (LastScan.found = 0 /\ stopReason = "none")
         => consecutiveDuplicatePages = 0
    /\ LastScan.new >= 1
         => consecutiveEmptyPages = 0 /\ consecutiveDuplicatePages = 0

(***************************************************************************)
(* Both versions of discoverScholarships: a run is a run of the            *)
(* target-count orchestrator or of the per-source one.                     *)
(***************************************************************************)
DSInit == TCInit \/ PGInit

DSNext == TCNext \/ PGNext

SpecDS == DSInit /\ [][DSNext]_vars

\* C1: the scholarships list a run of discoverScholarships returns holds no
\* URL twice and no URL of the existing-URL set loaded at the start of the run.
C1_ReturnedListDeduplicated ==
  pc = "done" =>
    LET list == result.scholarships
    IN  /\ \A i, j \in 1..Len(list) : list[i].url = list[j].url => i = j
        /\ \A i \in 1..Len(list) : list[i].url \notin existingUrlSet

\* a run returned scholarships after it had collected a URL twice and a URL
\* the store already held
C1_Witness ==
  /\ pc = "done"
  /\ Len(result.scholarships) > 0
  /\ Len(allScholarships) > Cardinality(Urls(allScholarships))
  /\ Urls(allScholarships) \cap existingUrlSet # {}

(***************************************************************************)
(* scrapeWebpage of src/app/actions/analyzeScholarship.ts                  *)
(***************************************************************************)
\* largest retries argument of a call
MaxRetries == 2

\* the URLs a call is given: a bold.org page, a page of another site
WPUrls == {"bold.org/scholarships/a", "example.org/award"}

\* url.includes('bold.org')
IsBoldOrg(url) == url = "bold.org/scholarships/a"

\* What one fetch(url) comes to: it throws (network error, abort after 30 s),
\* or it resolves to a response with a status and a body of at least 100
\* characters or shorter.
WPResponses ==
  {[threw |-> TRUE, status |-> 0, long |-> FALSE]}
    \cup [threw : {FALSE}, status : {200, 403, 404, 429, 500}, long : BOOLEAN]

\* response.ok
Ok(response) == response.status >= 200 /\ response.status <= 299

\* response.status === 403 || response.status === 429
IsBlockedStatus(response) == response.status = 403 \/ response.status = 429

\* new Error(message), with the status its message quotes
Error(message, status) == [message |-> message, status |-> status]

\* The try block of one attempt, given what fetch came to: it returns the
\* content, ends in continue with lastError set, or throws.
TryBlock(response) ==
  IF response.threw THEN [kind |-> "throw", error |-> Error("fetch failed", 0)]
  ELSE IF ~Ok(response)
  THEN IF IsBlockedStatus(response)
       THEN [kind |-> "throw", error |-> Error("HTTP", response.status)]
       ELSE [kind |-> "continue", error |-> Error("HTTP", response.status)]
  ELSE IF ~response.long
  THEN [kind |-> "continue", error |-> Error("Page content too short or empty", 0)]
  ELSE [kind |-> "return", error |-> NoError]

\* no run of discoverScholarships is going on
DiscoveryIdle ==
  /\ maxPagesPerSource = 1
  /\ targetCount = 0
  /\ existingUrlSet = {}
  /\ enabledSources = <<>>
  /\ sharedState = [targetCount |-> 0, newCount |-> 0]
  /\ sourceStatsMap = <<>>
  /\ allScholarships = <<>>
  /\ errors = <<>>
  /\ srcIdx = 1
  /\ page = 1
  /\ pc = "idle"
  /\ limitedScholarships = <<>>
  /\ analyzedScholarships = NoAnalysis
  /\ analysisErrors = <<>>
  /\ analysisIdx = 0
  /\ result = NoResult
  /\ scraperCalls = <<>>
  /\ lastOutcome = "none"
  /\ analyzeCalls = <<>>

WPInit ==
  /\ wpUrl \in WPUrls
  /\ retries \in 0..MaxRetries
  /\ attempt = 0
  /\ lastError = NoError
  /\ fetchLog = <<>>
  /\ wpPc = "loop"
  /\ DiscoveryIdle
  /\ PGIdle
  /\ STIdle
  /\ NetIdle

\* One iteration of for (attempt = 0; attempt <= retries; attempt++): the
\* fetch, the try block, and the catch block, which records the error and lets
\* the loop go on.
WPAttempt ==
  /\ wpPc = "loop"
  /\ attempt <= retries
  /\ \E response \in WPResponses :
       LET tried == TryBlock(response)
       IN  /\ fetchLog' =
                Append(fetchLog, [response |-> response, attempt |-> attempt,
                                  referer |-> IsBoldOrg(wpUrl)])
           /\ IF tried.kind = "return"
              THEN wpPc' = "returned" /\ UNCHANGED <<attempt, lastError>>
              ELSE \* continue, or the catch block: lastError = error
                   /\ lastError' = tried.error
                   /\ attempt' = attempt + 1
                   /\ wpPc' = wpPc
  /\ UNCHANGED <<notWebpage, wpUrl, retries>>

\* after the loop: throw lastError || new Error('Failed to scrape webpage')
WPThrow ==
  /\ wpPc = "loop"
  /\ attempt > retries
  /\ wpPc' = "threw"
  /\ UNCHANGED <<notWebpage, wpUrl, retries, attempt, lastError, fetchLog>>

WPNext == WPAttempt \/ WPThrow

SpecWP == WPInit /\ [][WPNext]_vars

\* C9: in a call of scrapeWebpage, a response with status 403 or 429 is the
\* last one fetched: no attempt follows it.
C9_NoRetryWhenBlocked ==
  \A i \in 1..Len(fetchLog) :
    (~fetchLog[i].response.threw /\ IsBlockedStatus(fetchLog[i].response))
      => i = Len(fetchLog)

(***************************************************************************)
(* Properties of both versions of discoverScholarships.                    *)
(***************************************************************************)
\* the errors entry of a source
SourceError(errs, sourceName) ==
  \E j \in 1..Len(errs) : errs[j].kind = "source" /\ errs[j].about = sourceName

\* C13: a run with no enabled source among the requested ids reports failure.
C13_NoSourcesIsFailure ==
  (pc = "done" /\ enabledSources = <<>>) => ~result.success

\* C14: in a returned run, every source reported as 'failed' has an entry in
\* the returned errors.
C14_FailedSourceHasError ==
  pc = "done" =>
    \A i \in 1..Len(result.sourceStats) :
      result.sourceStats[i].status = "failed"
        => SourceError(result.errors, result.sourceStats[i].sourceName)

\* the place of a source in enabledSources
SourceIndex(id) == CHOOSE i \in 1..Len(enabledSources) : enabledSources[i].id = id

MaxInserts == 3

\* The Scholarship records insertScholarship is given: the URL, the fields
\* the ON CONFLICT clause overwrites (name, deadline, award_amount, ...,
\* essay_prompt) taken together as analysis, and drafted_essay, which it
\* does not overwrite; aiPolicy and generationPreference as analyzeScholarship
\* sets them for a scholarship whose policy it could not tell.
Scholarships ==
  [url : URLS, analysis : {1, 2}, draftedEssay : {1, 2}, aiPolicy : {"Unsure"},
   generationPreference : {"Full Draft"}]

\* whether the table holds a row with the URL (url TEXT UNIQUE NOT NULL)
Conflicts(rows, url) == \E i \in 1..Len(rows) : rows[i].url = url

\* INSERT ... RETURNING id on a table without a row of the URL
InsertRow(rows, scholarship, id) ==
  Append(rows, [id |-> id, url |-> scholarship.url,
                analysis |-> scholarship.analysis,
                draftedEssay |-> scholarship.draftedEssay, isSaved |-> FALSE,
                ai_policy |-> scholarship.aiPolicy,
                generation_preference |-> scholarship.generationPreference])

\* ON CONFLICT (url) DO UPDATE SET name = EXCLUDED.name, ...
DoUpdate(rows, scholarship) ==
  [i \in 1..Len(rows) |->
     IF rows[i].url = scholarship.url
     THEN [rows[i] EXCEPT !.analysis = scholarship.analysis,
                          !.ai_policy = scholarship.aiPolicy,
                          !.generation_preference =
                            scholarship.generationPreference]
     ELSE rows[i]]

\* The statement of insertScholarship: the table after it and what it yields,
\* the RETURNING id rows or, with error set, the exception of the driver.
UpsertDoNothing(rows, scholarship, id) ==
  IF Conflicts(rows, scholarship.url)
  THEN [rows |-> rows, error |-> TRUE, id |-> 0]
  ELSE [rows |-> InsertRow(rows, scholarship, id), error |-> FALSE, id |-> id]

Upsert(rows, scholarship, id) ==
  IF Conflicts(rows, scholarship.url)
  THEN [rows |-> DoUpdate(rows, scholarship), error |-> FALSE,
        id |-> rows[CHOOSE i \in 1..Len(rows) : rows[i].url = scholarship.url].id]
  ELSE [rows |-> InsertRow(rows, scholarship, id), error |-> FALSE, id |-> id]

STInit ==
  /\ storeRows = <<>>
  /\ nextId = 1
  /\ insertLog = <<>>
  /\ DiscoveryIdle
  /\ PGIdle
  /\ WPIdle
  /\ NetIdle

\* insertScholarship(scholarship) with the database reachable
STInsert ==
  /\ Len(insertLog) < MaxInserts
  /\ \E scholarship \in Scholarships :
       LET done == Upsert(storeRows, scholarship, nextId)
       IN  /\ storeRows' = done.rows
           /\ nextId' = IF done.id = nextId THEN nextId + 1 ELSE nextId
           /\ insertLog' =
                Append(insertLog,
                       [scholarship |-> scholarship, dbDown |-> FALSE,
                        success |-> ~done.error, id |-> done.id])
  /\ UNCHANGED notStore

\* insertScholarship(scholarship) when the query throws because the database
\* cannot be reached: the catch block returns { success: false }
STInsertFails ==
  /\ Len(insertLog) < MaxInserts
  /\ \E scholarship \in Scholarships :
       insertLog' =
         Append(insertLog,
                [scholarship |-> scholarship, dbDown |-> TRUE,
                 success |-> FALSE, id |-> 0])
  /\ UNCHANGED <<notStore, storeRows, nextId>>

STNext == STInsert \/ STInsertFails

SpecST == STInit /\ [][STNext]_vars

\* the table holds at most one row per URL
OneRowPerUrl ==
  \A i, j \in 1..Len(storeRows) : storeRows[i].url = storeRows[j].url => i = j

\* a call for a stored URL that reached the database kept the number of rows,
\* overwrote the analysis fields of the row of that URL, and returned success
\* with the id of that row
UpsertStep ==
  LET call == insertLog'[Len(insertLog')]
  IN  (/\ insertLog' # insertLog
       /\ ~call.dbDown
       /\ Conflicts(storeRows, call.scholarship.url)) =>
        /\ Len(storeRows') = Len(storeRows)
        /\ call.success
        /\ \E i \in 1..Len(storeRows) :
             /\ storeRows[i].url = call.scholarship.url
             /\ call.id = storeRows[i].id
             /\ storeRows'[i].id = storeRows[i].id
             /\ storeRows'[i].analysis = call.scholarship.analysis

\* C17: after any sequence of insertScholarship calls the table holds at most
\* one row per URL, and a call whose URL is already stored updates the
\* analysis fields of that row and returns success with its id, adding no row.
C17_UpsertByUrl == []OneRowPerUrl /\ [][UpsertStep]_vars

\* the second call for a URL changed the analysis of its row and returned the
\* id of the first call, with another URL stored as well
C17_Witness ==
  /\ Len(insertLog) = 3
  /\ Len(storeRows) = 2
  /\ insertLog[1].scholarship.url = insertLog[3].scholarship.url
  /\ insertLog[1].scholarship.analysis # insertLog[3].scholarship.analysis
  /\ insertLog[3].success
  /\ insertLog[3].id = insertLog[1].id
  /\ storeRows[1].analysis = insertLog[3].scholarship.analysis

(***************************************************************************)
(* fetchWithRetry, the plain-fetch path of the scrapers                    *)
(* (src/unnamed/part_008 and src/app/actions/discoverScholarships.ts).     *)
(***************************************************************************)
\* What one request comes to: fetch or response.text() rejects (network
\* error), or a response with a status and a body arrives.
FRResponses ==
  {[threw |-> TRUE, status |-> 0, body |-> "none"]}
    \cup [threw : {FALSE}, status : {200, 403, 429, 500}, body : {"a", "b"}]

\* One iteration of for (let i = 0; i <= retries; i++), given what the request
\* came to: the function returns the body, returns null, or goes on with the
\* next i after a delay.  An exception is caught by the catch block of the
\* iteration; nothing is thrown to the caller.
FRIterationThrowsWhenBlocked(response, i, retriesArg) ==
  IF response.threw
  THEN IF i = retriesArg THEN [kind |-> "return", value |-> "null"]
       ELSE [kind |-> "continue", value |-> "none"]
  ELSE IF IsBlockedStatus(response)
  THEN [kind |-> "throw", value |-> "none"]
  ELSE IF ~Ok(response)
  THEN IF i = retriesArg THEN [kind |-> "return", value |-> "null"]
       ELSE [kind |-> "continue", value |-> "none"]
  ELSE [kind |-> "return", value |-> response.body]

FRIteration(response, i, retriesArg) ==
  IF response.threw
  THEN IF i = retriesArg THEN [kind |-> "return", value |-> "null"]
       ELSE [kind |-> "continue", value |-> "none"]
  ELSE IF ~Ok(response)
  THEN IF i = retriesArg THEN [kind |-> "return", value |-> "null"]
       ELSE [kind |-> "continue", value |-> "none"]
  ELSE [kind |-> "return", value |-> response.body]

\* a call fetchWithRetry(url, retries); the scrapers call it with the default
\* retries = 2
FRInit ==
  /\ frRetries \in 0..MaxRetries
  /\ frI = 0
  /\ frLog = <<>>
  /\ frPc = "loop"
  /\ frResult = "none"
  /\ DiscoveryIdle
  /\ PGIdle
  /\ WPIdle
  /\ STIdle
  /\ ApiIdle
  /\ FPIdle
  /\ GBIdle
  /\ FNIdle

\* one iteration of the loop: the request and what follows it
FRAttempt ==
  /\ frPc = "loop"
  /\ frI <= frRetries
  /\ \E response \in FRResponses :
       LET iteration == FRIteration(response, frI, frRetries)
       IN  /\ frLog' = Append(frLog, response)
           /\ CASE iteration.kind = "return" ->
                     /\ frPc' = "returned"
                     /\ frResult' = iteration.value
                     /\ frI' = frI
                [] iteration.kind = "throw" ->
                     /\ frPc' = "threw"
                     /\ UNCHANGED <<frResult, frI>>
                [] OTHER ->
                     /\ frI' = frI + 1
                     /\ UNCHANGED <<frPc, frResult>>
  /\ UNCHANGED <<notRetry, frRetries>>

FRNext == FRAttempt

SpecFR == FRInit /\ [][FRNext]_vars

\* a request that was answered with a 2xx status
Answered2xx(response) ==
  ~response.threw /\ response.status >= 200 /\ response.status <= 299

\* C21: a call of fetchWithRetry issues at most retries + 1 requests, 3 with
\* the default retries = 2; a request answered with a 2xx status is the last
\* one and its body is what the call returns; a call never throws, and it
\* returns null exactly when all retries + 1 requests failed, by a non-2xx
\* status (403 and 429 included) or a network error.
C21_FetchWithRetry ==
  /\ Len(frLog) <= frRetries + 1
  /\ frRetries = 2 => Len(frLog) <= 3
  /\ frPc # "threw"
  /\ \A k \in 1..Len(frLog) :
       Answered2xx(frLog[k]) =>
         /\ k = Len(frLog)
         /\ frPc = "returned"
         /\ frResult = frLog[k].body
  /\ (frPc = "loop" /\ frLog # <<>>) => Len(frLog) <= frRetries
  /\ (frPc = "returned" /\ ~Answered2xx(frLog[Len(frLog)])) =>
       /\ frResult = "null"
       /\ Len(frLog) = frRetries + 1

\* a call with retries = 2 returned null after the statuses 403 and 429 and a
\* network error, and another returned the body of its third request
C21_Witness ==
  /\ frRetries = 2
  /\ frPc = "returned"
  /\ Len(frLog) = 3
  /\ frLog[1].status = 403
  /\ frLog[2].status = 429
  /\ frLog[3].threw
  /\ frResult = "null"

(***************************************************************************)
(* A page fetch through a browser tab: fetchWithPuppeteer, and the tab      *)
(* handling of scrapeBold and scrapeScholarships360 (src/unnamed/part_008). *)
(***************************************************************************)
\* for (let scroll = 0; scroll < 5; scroll++)
MaxScrollCycles == 5

FPCallers == {"fetchWithPuppeteer", "scrapeBold", "scrapeScholarships360"}

\* the break of the scroll loop: scroll > 0 and the height just measured
\* equals the height measured once more in the condition
ScrollBreak(scroll, newHeight, again) == scroll > 0 /\ newHeight = again

\* the source a scraper scrapes
SourceName(caller) ==
  IF caller = "scrapeBold" THEN "Bold.org" ELSE "Scholarships360"

\* scrapeBoldFallback(currentPage, ...), given what its fetchWithRetry(url)
\* came to
scrapeBoldFallbackGivesUp(currentPage, existingUrls, resp) ==
  [scholarships |-> <<>>, counted |-> 0, outcome |-> "failed"]

scrapeBoldFallback(currentPage, existingUrls, resp) ==
  ScrapePage("Bold.org", currentPage, existingUrls, resp)

\* fetchWithRetry(url, retries = 2)
DefaultRetries == 2

\* The number of requests a call fetchWithRetry(url) made, given what it
\* returned: null after retries + 1 failed requests, a page after at most as
\* many.
PlainAttemptsOneMore(resp) ==
  IF resp.kind = "null" THEN {DefaultRetries + 2} ELSE 1..(DefaultRetries + 2)

PlainAttempts(resp) ==
  IF resp.kind = "null" THEN {DefaultRetries + 1} ELSE 1..(DefaultRetries + 1)

\* What a scraper makes of the response to its page request, whichever way
\* the page was fetched.
Scraped(caller, viaFallback, resp) ==
  LET scraped ==
        IF caller = "scrapeBold"
        THEN IF viaFallback THEN scrapeBoldFallback(fpPageNo, {}, resp)
             ELSE scrapeBold(fpPageNo, {}, resp)
        ELSE scrapeScholarships360(fpPageNo, {}, resp)
  IN  [resp |-> resp, scholarships |-> scraped.scholarships,
       outcome |-> scraped.outcome]

\* one page fetch of one of the three functions; fetchWithPuppeteer takes a
\* retries argument, the scrapers a page number
FPInit ==
  /\ fpCaller \in FPCallers
  /\ fpBrowser \in BOOLEAN
  /\ fpRetries \in (IF fpCaller = "fetchWithPuppeteer" THEN 0..MaxRetries ELSE {0})
  /\ fpAttempt = 0
  /\ fpTabs = 0
  /\ fpScroll = 0
  /\ fpHeight = 1
  /\ fpCycles = <<>>
  /\ fpLog = <<>>
  /\ fpPc = "start"
  /\ fpResult = "none"
  /\ fpPageNo \in 1..2
  /\ fpScrape = NoScrape
  /\ fpFetches = 0
  /\ DiscoveryIdle
  /\ PGIdle
  /\ WPIdle
  /\ STIdle
  /\ ApiIdle
  /\ FRIdle
  /\ GBIdle
  /\ FNIdle

\* The catch block that an exception inside the try reaches.  In
\* fetchWithPuppeteer it records lastError and the loop goes on with the next
\* attempt, or ends with return null; in scrapeBold it logs and the empty list
\* is returned; in scrapeScholarships360 the page is fetched by
\* fetchWithRetry.  No catch block closes the tab.
FPCatch(why) ==
  /\ fpLog' = Append(fpLog, why)
  /\ CASE fpCaller = "fetchWithPuppeteer" ->
            /\ fpAttempt' = fpAttempt + 1
            /\ fpPc' = IF fpAttempt = fpRetries THEN "returned" ELSE "start"
            /\ fpResult' = IF fpAttempt = fpRetries THEN "null" ELSE fpResult
            /\ fpScrape' = fpScrape
            /\ fpFetches' = IF why = "navigationTimeout" THEN fpFetches + 1
                            ELSE fpFetches
       [] fpCaller = "scrapeBold" ->
            /\ fpPc' = "returned"
            /\ fpResult' = "caught"
            /\ fpAttempt' = fpAttempt
            /\ fpScrape' = fpScrape
            /\ fpFetches' = IF why = "navigationTimeout" THEN fpFetches + 1
                            ELSE fpFetches
       [] OTHER ->
            /\ fpPc' = "returned"
            /\ fpResult' = "fetchWithRetry"
            /\ fpAttempt' = fpAttempt
            /\ \E resp \in Responses(SourceName(fpCaller), fpPageNo) :
                 /\ fpScrape' = Scraped(fpCaller, FALSE, resp)
                 /\ \E requests \in PlainAttempts(resp) :
                      fpFetches' =
                        (IF why = "navigationTimeout" THEN fpFetches + 1
                         ELSE fpFetches) + requests

\* getBrowser() returned null: fetchWithPuppeteer throws into its catch block,
\* scrapeBold returns scrapeBoldFallback(...), scrapeScholarships360 takes the
\* else branch with fetchWithRetry
FPNoBrowser ==
  /\ fpPc = "start"
  /\ ~fpBrowser
  /\ IF fpCaller = "fetchWithPuppeteer"
     THEN FPCatch("noBrowser")
     ELSE /\ fpLog' = Append(fpLog, "noBrowser")
          /\ fpPc' = "returned"
          /\ fpResult' =
               IF fpCaller = "scrapeBold" THEN "scrapeBoldFallback"
               ELSE "fetchWithRetry"
          /\ fpAttempt' = fpAttempt
          /\ \E resp \in Responses(SourceName(fpCaller), fpPageNo) :
               /\ fpScrape' = Scraped(fpCaller, TRUE, resp)
               /\ \E requests \in PlainAttempts(resp) :
                    fpFetches' = fpFetches + requests
  /\ UNCHANGED <<notTab, fpCaller, fpBrowser, fpRetries, fpTabs, fpScroll,
                 fpHeight, fpCycles, fpPageNo>>

\* browser.newPage(), setViewport, setUserAgent
FPNewPage ==
  /\ fpPc = "start"
  /\ fpBrowser
  /\ fpTabs' = fpTabs + 1
  /\ fpPc' = "goto"
  /\ UNCHANGED <<notTab, fpCaller, fpBrowser, fpRetries, fpAttempt, fpScroll,
                 fpHeight, fpCycles, fpLog, fpResult, fpPageNo, fpScrape,
                 fpFetches>>

\* page.goto(url, ...) resolved
FPGoto ==
  /\ fpPc = "goto"
  /\ fpPc' = IF fpCaller = "fetchWithPuppeteer" THEN "scroll" ELSE "content"
  /\ fpScroll' = 0
  /\ fpCycles' = <<>>
  /\ fpHeight' = 1
  /\ fpFetches' = fpFetches + 1
  /\ UNCHANGED <<notTab, fpCaller, fpBrowser, fpRetries, fpAttempt, fpTabs,
                 fpLog, fpResult, fpPageNo, fpScrape>>

\* an awaited call on the tab rejects: page.goto (navigation timeout),
\* page.evaluate (evaluation error), page.content
FPThrows ==
  /\ fpPc \in {"goto", "scroll", "content"}
  /\ FPCatch(IF fpPc = "goto" THEN "navigationTimeout" ELSE "evaluationError")
  /\ UNCHANGED <<notTab, fpCaller, fpBrowser, fpRetries, fpTabs, fpScroll,
                 fpHeight, fpCycles, fpPageNo>>

\* One cycle of the scroll loop of fetchWithPuppeteer: scroll to the bottom,
\* wait, measure the height (newHeight), and in the condition measure it once
\* more.  The scroll may have made the page grow, and content may still arrive
\* between the two measurements.
FPScroll ==
  /\ fpPc = "scroll"
  /\ fpScroll < MaxScrollCycles
  /\ \E grown \in {0, 1}, late \in {0, 1} :
       LET newHeight == fpHeight + grown
           again == newHeight + late
       IN  /\ fpCycles' = Append(fpCycles, [newHeight |-> newHeight, again |-> again])
           /\ fpHeight' = again
           /\ IF ScrollBreak(fpScroll, newHeight, again)
              THEN fpScroll' = fpScroll /\ fpPc' = "content"
              ELSE /\ fpScroll' = fpScroll + 1
                   /\ fpPc' = IF fpScroll + 1 < MaxScrollCycles THEN "scroll"
                              ELSE "content"
  /\ UNCHANGED <<notTab, fpCaller, fpBrowser, fpRetries, fpAttempt, fpTabs,
                 fpLog, fpResult, fpPageNo, fpScrape, fpFetches>>

\* The end of the try block: the HTML is read and the tab is closed.
\* fetchWithPuppeteer then returns it unless it is shorter than 100
\* characters, which ends the attempt with continue; scrapeBold closes the tab
\* and returns when checkRedirect reports a redirect, and otherwise parses
\* the HTML and closes the tab; scrapeScholarships360 closes the tab and goes
\* on to its redirect check and the parsing.
FPContent ==
  /\ fpPc = "content"
  /\ fpTabs' = fpTabs - 1
  /\ IF fpCaller = "fetchWithPuppeteer"
     THEN \E long \in BOOLEAN :
            /\ fpScrape' = fpScrape
            /\ IF long
               THEN /\ fpLog' = Append(fpLog, "ok")
                    /\ fpPc' = "returned"
                    /\ fpResult' = "html"
                    /\ fpAttempt' = fpAttempt
               ELSE /\ fpLog' = Append(fpLog, "tooShort")
                    /\ fpAttempt' = fpAttempt + 1
                    /\ fpPc' = IF fpAttempt = fpRetries THEN "returned" ELSE "start"
                    /\ fpResult' = IF fpAttempt = fpRetries THEN "null" ELSE fpResult
     ELSE \E resp \in {r \in Responses(SourceName(fpCaller), fpPageNo) : r.kind = "ok"} :
            LET scraped == Scraped(fpCaller, FALSE, resp)
            IN  /\ fpScrape' = scraped
                /\ fpLog' = Append(fpLog, scraped.outcome)
                /\ fpPc' = "returned"
                /\ fpResult' = "html"
                /\ fpAttempt' = fpAttempt
  /\ UNCHANGED <<notTab, fpCaller, fpBrowser, fpRetries, fpScroll, fpHeight,
                 fpCycles, fpPageNo, fpFetches>>

FPNext ==
  \/ FPNoBrowser
  \/ FPNewPage
  \/ FPGoto
  \/ FPThrows
  \/ FPScroll
  \/ FPContent

SpecFP == FPInit /\ [][FPNext]_vars

\* C22: no tab is open when a page fetch has returned, nor between two
\* attempts of fetchWithPuppeteer, however the fetch ended.
C22_TabsClosed == fpPc \in {"start", "returned"} => fpTabs = 0

\* C25: a page request of scrapeBold or scrapeScholarships360 made without a
\* browser went through scrapeBoldFallback or fetchWithRetry; it counts as
\* failed only when fetchWithRetry returned null, and a page that arrived
\* without a redirect yields the candidates the page links to.
C25_BrowserlessFallback ==
  (fpPc = "returned" /\ ~fpBrowser /\ fpCaller # "fetchWithPuppeteer") =>
    /\ fpResult \in {"scrapeBoldFallback", "fetchWithRetry"}
    /\ fpTabs = 0
    /\ fpScrape.outcome = "failed" <=> fpScrape.resp.kind = "null"
    /\ (/\ fpScrape.resp.kind = "ok"
        /\ ~checkRedirect(PageUrl(SourceName(fpCaller), fpPageNo),
                          fpScrape.resp.finalUrl, fpPageNo, SourceName(fpCaller))) =>
         /\ fpScrape.outcome = "page"
         /\ Urls(fpScrape.scholarships) =
              {fpScrape.resp.links[k] : k \in 1..Len(fpScrape.resp.links)}

\* scrapeBold, called for page 2 without a browser, returned two candidates
\* through scrapeBoldFallback
C25_Witness ==
  /\ fpPc = "returned"
  /\ ~fpBrowser
  /\ fpCaller = "scrapeBold"
  /\ fpPageNo = 2
  /\ fpResult = "scrapeBoldFallback"
  /\ Len(fpScrape.scholarships) = 2

\* C24: the scroll loop performs at most 5 cycles, and when it is over after
\* fewer than 5, the height measured in its last cycle is not above the
\* height the page had at the end of the cycle before.
C24_ScrollLoop ==
  /\ Len(fpCycles) <= 5
  /\ (fpPc = "content" /\ fpCaller = "fetchWithPuppeteer" /\ Len(fpCycles) < 5) =>
       /\ Len(fpCycles) >= 2
       /\ fpCycles[Len(fpCycles)].newHeight <= fpCycles[Len(fpCycles) - 1].again

(***************************************************************************)
(* getBrowser and the SIGINT / SIGTERM handlers (src/unnamed/part_008 and   *)
(* src/app/actions/discoverScholarships.ts).  The discovery runs of one     *)
(* process share the module variable browserInstance; a run gives way to    *)
(* the others at each await.                                               *)
(***************************************************************************)
\* the number of getBrowser calls one run makes
MaxBrowserCalls == 2

GBInit ==
  /\ browserInstance = 0
  /\ gbExecutable \in BOOLEAN
  /\ gbLive = {}
  /\ gbNextBrowser = 1
  /\ gbPc = [r \in Runs |-> "ready"]
  /\ gbCalls = [r \in Runs |-> 0]
  /\ gbGot = [r \in Runs |-> 0]
  /\ gbHandler = "ready"
  /\ DiscoveryIdle
  /\ PGIdle
  /\ WPIdle
  /\ STIdle
  /\ ApiIdle
  /\ FRIdle
  /\ FPIdle
  /\ FNIdle

\* getBrowser() up to its first await: with browserInstance set it returns
\* it; without an executable it returns null; otherwise it calls
\* puppeteer.launch and awaits the result
GBCall(r) ==
  /\ gbPc[r] = "ready"
  /\ gbCalls[r] < MaxBrowserCalls
  /\ gbCalls' = [gbCalls EXCEPT ![r] = @ + 1]
  /\ IF browserInstance # 0
     THEN /\ gbGot' = [gbGot EXCEPT ![r] = browserInstance]
          /\ UNCHANGED gbPc
     ELSE IF ~gbExecutable
     THEN /\ gbGot' = [gbGot EXCEPT ![r] = 0]
          /\ UNCHANGED gbPc
     ELSE /\ gbPc' = [gbPc EXCEPT ![r] = "launching"]
          /\ UNCHANGED gbGot
  /\ UNCHANGED <<notBrowser, browserInstance, gbExecutable, gbLive,
                 gbNextBrowser, gbHandler>>

\* puppeteer.launch resolved: browserInstance = the new browser, which is
\* returned
GBLaunched(r) ==
  /\ gbPc[r] = "launching"
  /\ gbLive' = gbLive \cup {gbNextBrowser}
  /\ browserInstance' = gbNextBrowser
  /\ gbGot' = [gbGot EXCEPT ![r] = gbNextBrowser]
  /\ gbNextBrowser' = gbNextBrowser + 1
  /\ gbPc' = [gbPc EXCEPT ![r] = "ready"]
  /\ UNCHANGED <<notBrowser, gbExecutable, gbCalls, gbHandler>>

\* puppeteer.launch rejected: the catch block returns null
GBLaunchFails(r) ==
  /\ gbPc[r] = "launching"
  /\ gbGot' = [gbGot EXCEPT ![r] = 0]
  /\ gbPc' = [gbPc EXCEPT ![r] = "ready"]
  /\ UNCHANGED <<notBrowser, browserInstance, gbExecutable, gbLive,
                 gbNextBrowser, gbCalls, gbHandler>>

\* SIGINT or SIGTERM with browserInstance set: the handler calls
\* browserInstance.close() and awaits it
GBSignal ==
  /\ gbHandler = "ready"
  /\ browserInstance # 0
  /\ gbHandler' = "closing"
  /\ gbLive' = gbLive \ {browserInstance}
  /\ UNCHANGED <<notBrowser, browserInstance, gbExecutable, gbNextBrowser,
                 gbPc, gbCalls, gbGot>>

\* close() resolved: browserInstance = null
GBClosed ==
  /\ gbHandler = "closing"
  /\ browserInstance' = 0
  /\ gbHandler' = "ready"
  /\ UNCHANGED <<notBrowser, gbExecutable, gbLive, gbNextBrowser, gbPc,
                 gbCalls, gbGot>>

GBNext ==
  \/ \E r \in Runs : GBCall(r)
  \/ \E r \in Runs : GBLaunched(r)
  \/ \E r \in Runs : GBLaunchFails(r)
  \/ GBSignal
  \/ GBClosed

SpecGB == GBInit /\ [][GBNext]_vars

\* C23: at any time at most one launched browser process is not closed, and
\* the browsers the runs hold from their last getBrowser call, as far as they
\* are not closed, are one and the same.
C23_OneBrowser ==
  /\ Cardinality(gbLive) <= 1
  /\ \A r1, r2 \in Runs :
       (gbGot[r1] \in gbLive /\ gbGot[r2] \in gbLive) => gbGot[r1] = gbGot[r2]

(***************************************************************************)
(* isValidScholarshipUrl (src/unnamed/part_008).                           *)
(***************************************************************************)
\* the number of calls of a run
MaxValidations == 2

\* The directory names of EXCLUDE_URL_PATTERNS, each /\/name\//i.
ExcludedDirs ==
  {"by-demographics", "by-state", "by-field", "by-type", "by-year", "category",
   "tag", "type", "state", "faq", "blog", "article", "news", "resources",
   "tips", "guide", "how-to", "what-is", "what-are", "search", "login",
   "register", "account", "about", "contact", "privacy", "terms",
   "terms-of-use", "terms-of-service"}

\* /\/name\//i: a path segment of that name with a slash after it
MatchesDir(u) ==
  \E i \in 1..Len(u.path) :
    u.path[i].s \in ExcludedDirs /\ (i < Len(u.path) \/ u.slash)

\* /\/page\/\d+/i
MatchesPageNumber(u) ==
  \E i \in 1..(Len(u.path) - 1) : u.path[i] = Lit("page") /\ u.path[i + 1].s = ""

\* /[a-z-]+-scholarships\/?$/i: the URL ends in a segment such as
\* nursing-scholarships
MatchesCategoryEnd(u) ==
  Len(u.query) = 0 /\ Len(u.path) > 0
    /\ u.path[Len(u.path)].s \in {"nursing-scholarships", "women-scholarships"}

\* /utm_source=/i, /utm_medium=/i, /\?ref=/i
MatchesTracking(u) ==
  \/ \E i \in 1..Len(u.query) : u.query[i].k \in {"utm_source", "utm_medium"}
  \/ Len(u.query) > 0 /\ u.query[1].k = "ref"

\* EXCLUDE_URL_PATTERNS.some((pattern) => pattern.test(url)).  No pattern has
\* the g or y flag, so test() keeps no state between calls; the patterns
\* anchored with ^ (phone numbers, tel:) match no absolute URL.
shouldExcludeUrl(url) ==
  LET u == ToLowerCase(url)
  IN  \/ MatchesDir(u)
      \/ MatchesPageNumber(u)
      \/ MatchesCategoryEnd(u)
      \/ EndsWithSeg(u, Lit("search"))
      \/ MatchesTracking(u)

\* A name is a text followed by pad further letters that take part in no
\* pattern.
TextLength(text) ==
  CASE text = "Jane" -> 4
    [] text = "How to " -> 7
    [] text = "FAQ" -> 3
    [] OTHER -> 5

\* name.length
NameLength(name) == TextLength(name.text) + name.pad

\* EXCLUDE_NAME_PATTERNS.some((pattern) => pattern.test(name)):
\* /^how (do|to|can|does)/i, /faq/i, /^terms$/i
shouldExcludeName(name) ==
  \/ name.text = "How to "
  \/ name.text = "FAQ"
  \/ name.text = "Terms" /\ name.pad = 0

isValidScholarshipUrlOffByOne(url, name) ==
  IF shouldExcludeUrl(url) THEN FALSE
  ELSE IF shouldExcludeName(name) THEN FALSE
  ELSE IF NameLength(name) <= 5 \/ NameLength(name) > 150 THEN FALSE
  ELSE TRUE

isValidScholarshipUrl(url, name) ==
  IF shouldExcludeUrl(url) THEN FALSE
  ELSE IF shouldExcludeName(name) THEN FALSE
  ELSE IF NameLength(name) < 5 \/ NameLength(name) > 150 THEN FALSE
  ELSE TRUE

\* the URLs and names the calls are given
VUUrls ==
  {Url(<<Lit("scholarships"), Lit("stem-award")>>, FALSE, <<>>),
   Url(<<Lit("scholarships"), Lit("faq")>>, FALSE, <<>>),
   Url(<<Lit("scholarships"), Lit("faq")>>, TRUE, <<>>),
   Url(<<Lit("Scholarships"), Lit("Search")>>, FALSE, <<>>),
   Url(<<Lit("scholarships"), Lit("page"), Num(2)>>, TRUE, <<>>),
   Url(<<Lit("scholarships"), Lit("nursing-scholarships")>>, FALSE, <<>>),
   Url(<<Lit("scholarships"), Lit("stem-award")>>, FALSE,
       <<[k |-> "id", v |-> <<7>>], [k |-> "ref", v |-> <<>>]>>),
   Url(<<Lit("scholarships"), Lit("stem-award")>>, FALSE,
       <<[k |-> "ref", v |-> <<>>]>>)}

VUNames ==
  [text : {"Jane"}, pad : {0, 1, 146, 147}]
    \cup [text : {"How to ", "FAQ"}, pad : {10}]
    \cup [text : {"Terms"}, pad : {0, 1}]

VUInit ==
  /\ vuLog = <<>>
  /\ crCall = NoCall
  /\ DiscoveryIdle
  /\ PGIdle
  /\ WPIdle
  /\ STIdle
  /\ ApiIdle
  /\ FRIdle
  /\ FPIdle
  /\ GBIdle

\* one call isValidScholarshipUrl(url, name)
VUCall ==
  /\ Len(vuLog) < MaxValidations
  /\ \E url \in VUUrls, name \in VUNames :
       vuLog' = Append(vuLog, [url |-> url, name |-> name,
                               result |-> isValidScholarshipUrl(url, name)])
  /\ UNCHANGED <<notHelpers, crCall>>

VUNext == VUCall

SpecVU == VUInit /\ [][VUNext]_vars

MaxCheckedPage == 3

\* the source names of a call: the three built-in ones and a custom source
CRSources == {"Bold.org", "Scholarships360", "Scholarships.com", "Local Fund"}

\* a URL below a numbered listing page of Bold.org that ends in /scholarships
NestedListingUrl(pageNo) ==
  Url(<<Lit("scholarships"), Num(pageNo), Lit("scholarships")>>, FALSE, <<>>)

\* the URLs of a call: the listing pages the scrapers request, the first page
\* as a server may spell it, a login wall, and nested listing URLs
CRUrls ==
  {PageUrl(name, p) : name \in CRSources \ {"Local Fund"}, p \in 1..MaxCheckedPage}
    \cup {FirstPageVariant(name) : name \in CRSources \ {"Local Fund"}}
    \cup {LoginUrl}
    \cup {NestedListingUrl(p) : p \in 2..MaxCheckedPage}

CRInit ==
  /\ crCall = NoCall
  /\ vuLog = <<>>
  /\ DiscoveryIdle
  /\ PGIdle
  /\ WPIdle
  /\ STIdle
  /\ ApiIdle
  /\ FRIdle
  /\ FPIdle
  /\ GBIdle

\* one call checkRedirect(requestedUrl, finalUrl, page, source)
CRCall ==
  /\ crCall = NoCall
  /\ \E requestedUrl \in CRUrls, finalUrl \in CRUrls, pageNo \in 0..MaxCheckedPage,
        source \in CRSources :
       crCall' = [requestedUrl |-> requestedUrl, finalUrl |-> finalUrl,
                  page |-> pageNo, source |-> source,
                  result |-> checkRedirect(requestedUrl, finalUrl, pageNo, source)]
  /\ UNCHANGED <<notHelpers, vuLog>>

CRNext == CRCall

SpecCR == CRInit /\ [][CRNext]_vars

RunInit == TCInit \/ FPInit

RunNext == TCNext \/ FPNext

SpecRun == RunInit /\ [][RunNext]_vars /\ WF_vars(TCNext) /\ WF_vars(FPNext)

\* the page requests a run made for a source
RequestsOf(id) == {i \in 1..Len(scraperCalls) : scraperCalls[i].source = id}

MaxDiscovered == 16

MAX_ANALYSIS_PER_RUN == 15

\* discovered.slice(0, MAX_ANALYSIS_PER_RUN).length
ScholarshipsToAnalyze(discovered) ==
  IF discovered < MAX_ANALYSIS_PER_RUN THEN discovered ELSE MAX_ANALYSIS_PER_RUN

\* the condition of the rate-limit wait at the end of iteration i:
\* i < scholarshipsToAnalyze.length - 1 && scholarshipsToAnalyze.length > 15
RateLimitWait(i, length) == i < length - 1 /\ length > 15

\* what one analysis comes to: the scholarship is analyzed and saved, the
\* analysis fails or throws for a reason other than the quota, or it fails
\* or throws with a quota error
HDOutcomes == {"saved", "failed", "quota"}

\* handleDiscover reached its fallback branch with a list of discovered
\* scholarships
HDInit ==
  /\ hdDiscovered \in 0..MaxDiscovered
  /\ hdI = 0
  /\ analyzedCount = 0
  /\ quotaExceeded = FALSE
  /\ hdCalls = 0
  /\ hdWaits = 0
  /\ hdLast = "none"
  /\ hdPc = "loop"
  /\ hdAnalyzeCalls = <<>>
  /\ DiscoveryIdle
  /\ PGIdle
  /\ WPIdle
  /\ STIdle
  /\ FRIdle
  /\ FPIdle
  /\ GBIdle
  /\ FNIdle
  /\ GPIdle
  /\ TSIdle

\* the body of the loop up to the rate-limit check: analyzeScholarship is
\* called; a quota error leaves the loop
HDAnalyze ==
  /\ hdPc = "loop"
  /\ hdI < ScholarshipsToAnalyze(hdDiscovered)
  /\ hdCalls' = hdCalls + 1
  /\ hdLast' = "analyze"
  /\ hdAnalyzeCalls' = Append(hdAnalyzeCalls, hdI)
  /\ \E outcome \in HDOutcomes :
       /\ analyzedCount' =
            IF outcome = "saved" THEN analyzedCount + 1 ELSE analyzedCount
       /\ quotaExceeded' = (outcome = "quota")
       /\ hdPc' = IF outcome = "quota" THEN "after" ELSE "rateLimit"
  /\ UNCHANGED <<hdDiscovered, hdI, hdWaits, notHandler>>

\* the end of the iteration: the wait, when its condition holds, and i++
HDRateLimit ==
  /\ hdPc = "rateLimit"
  /\ IF RateLimitWait(hdI, ScholarshipsToAnalyze(hdDiscovered))
     THEN hdWaits' = hdWaits + 1 /\ hdLast' = "wait"
     ELSE UNCHANGED <<hdWaits, hdLast>>
  /\ hdI' = hdI + 1
  /\ hdPc' = "loop"
  /\ UNCHANGED
       <<hdDiscovered, analyzedCount, quotaExceeded, hdCalls, hdAnalyzeCalls,
         notHandler>>

\* the loop condition fails
HDLeave ==
  /\ hdPc = "loop"
  /\ hdI >= ScholarshipsToAnalyze(hdDiscovered)
  /\ hdPc' = "after"
  /\ UNCHANGED
       <<hdDiscovered, hdI, analyzedCount, quotaExceeded, hdCalls, hdWaits,
         hdLast, hdAnalyzeCalls, notHandler>>

HDNext == HDAnalyze \/ HDRateLimit \/ HDLeave

SpecHD == HDInit /\ [][HDNext]_vars

\* the loop never waits: at most MAX_ANALYSIS_PER_RUN scholarships are
\* analyzed, and the wait needs more than 15
HDNeverWaits == hdWaits = 0 /\ hdCalls <= MAX_ANALYSIS_PER_RUN

\* an analyzeScholarship call that is not the first of the batch comes right
\* after a wait
WaitBeforeCall == (hdCalls' = hdCalls + 1 /\ hdCalls >= 1) => hdLast = "wait"

\* C29: in the fallback analysis loop of handleDiscover, for every batch of
\* two or more scholarships, the 13-second rate-limit wait happens between any
\* two consecutive analyzeScholarship calls.
C29_WaitBetweenCalls == [][WaitBeforeCall]_vars

(***************************************************************************)
(* The AI policy and the generation preference of a stored scholarship:    *)
(* insertScholarship, updateGenerationPreference and the reads through     *)
(* rowToScholarship (src/unnamed/part_006).                                *)
(***************************************************************************)
\* the number of store calls of a run
MaxStoreCalls == 3

AIPolicies == {"Safe", "Prohibited", "Unsure"}
GenerationPreferences == {"Full Draft", "Outline"}

\* switch (policy) { case 'Safe': ...; case 'Prohibited': ...; default: 'Unsure' }
parseAIPolicy(policy) ==
  CASE policy = "Safe" -> "Safe"
    [] policy = "Prohibited" -> "Prohibited"
    [] OTHER -> "Unsure"

\* the stored preference is respected unless the policy is 'Prohibited'
parseGenerationPreferenceAsStored(preference, aiPolicy) ==
  IF preference = "Outline" THEN "Outline" ELSE "Full Draft"

parseGenerationPreference(preference, aiPolicy) ==
  IF aiPolicy = "Prohibited" THEN "Outline"
  ELSE IF preference = "Outline" THEN "Outline" ELSE "Full Draft"

\* the fields of the Scholarship rowToScholarship builds that the model keeps
rowToScholarship(row) ==
  LET aiPolicy == parseAIPolicy(row.ai_policy)
  IN  [id |-> row.id, url |-> row.url, aiPolicy |-> aiPolicy,
       generationPreference |->
         parseGenerationPreference(row.generation_preference, aiPolicy)]

\* UPDATE scholarships SET generation_preference = ${preference} WHERE id = ${id}
SetGenerationPreference(rows, id, preference) ==
  [i \in 1..Len(rows) |->
     IF rows[i].id = id
     THEN [rows[i] EXCEPT !.generation_preference = preference]
     ELSE rows[i]]

\* The Scholarship records insertScholarship is given here: what the callers
\* can pass, the policy and the preference in any combination.
PolicyScholarships ==
  [url : URLS, analysis : {1}, draftedEssay : {1}, aiPolicy : AIPolicies,
   generationPreference : GenerationPreferences]

\* the calls made so far
StoreCalls == Len(insertLog) + Len(gpLog)

GPInit ==
  /\ storeRows = <<>>
  /\ nextId = 1
  /\ insertLog = <<>>
  /\ gpLog = <<>>
  /\ gpRead = <<>>
  /\ HDIdle
  /\ TSIdle
  /\ DiscoveryIdle
  /\ PGIdle
  /\ WPIdle
  /\ FRIdle
  /\ FPIdle
  /\ GBIdle
  /\ FNIdle

\* insertScholarship(scholarship), the database reachable or not
GPInsert ==
  /\ StoreCalls < MaxStoreCalls
  /\ \E scholarship \in PolicyScholarships, dbDown \in BOOLEAN :
       LET done == IF dbDown THEN [rows |-> storeRows, error |-> TRUE, id |-> 0]
                   ELSE Upsert(storeRows, scholarship, nextId)
       IN  /\ storeRows' = done.rows
           /\ nextId' = IF ~dbDown /\ done.id = nextId THEN nextId + 1 ELSE nextId
           /\ insertLog' =
                Append(insertLog,
                       [scholarship |-> scholarship, dbDown |-> dbDown,
                        success |-> ~done.error, id |-> done.id])
  /\ UNCHANGED <<notPreference, gpLog, gpRead>>

\* updateGenerationPreference(id, preference), for the id of a row or of none;
\* when the query throws the catch block returns { success: false }
GPUpdate ==
  /\ StoreCalls < MaxStoreCalls
  /\ \E id \in 1..nextId, preference \in GenerationPreferences,
        dbDown \in BOOLEAN :
       /\ storeRows' =
            IF dbDown THEN storeRows
            ELSE SetGenerationPreference(storeRows, id, preference)
       /\ gpLog' =
            Append(gpLog,
                   [call |-> "updateGenerationPreference", id |-> id,
                    preference |-> preference, success |-> ~dbDown])
  /\ UNCHANGED <<notPreference, nextId, insertLog, gpRead>>

\* SELECT * FROM scholarships WHERE id = ${id} LIMIT 1
SelectById(rows, id) == SelectSeq(rows, LAMBDA row : row.id = id)

\* getScholarshipById(id), for the id of a row or of none: the Scholarship of
\* the row, or null (the empty list) when there is no row or the query throws
GPRead ==
  /\ StoreCalls < MaxStoreCalls
  /\ \E id \in 1..nextId, dbDown \in BOOLEAN :
       LET found == IF dbDown THEN <<>> ELSE SelectById(storeRows, id)
       IN  /\ gpRead' = [i \in 1..Len(found) |-> rowToScholarship(found[i])]
           /\ gpLog' =
                Append(gpLog,
                       [call |-> "getScholarshipById", id |-> id,
                        preference |-> "none", success |-> ~dbDown])
  /\ UNCHANGED <<notPreference, storeRows, nextId, insertLog>>

GPNext == GPInsert \/ GPUpdate \/ GPRead

SpecGP == GPInit /\ [][GPNext]_vars

\* C30: after any sequence of insertScholarship and updateGenerationPreference
\* calls, every scholarship read through rowToScholarship whose aiPolicy is
\* 'Prohibited' has generationPreference 'Outline'.
C30_ProhibitedIsOutline ==
  \A i \in 1..Len(gpRead) :
    gpRead[i].aiPolicy = "Prohibited" => gpRead[i].generationPreference = "Outline"

\* updateGenerationPreference stored 'Full Draft' for a scholarship whose
\* policy is 'Prohibited', and the scholarship was read after that
C30_Witness ==
  /\ Len(gpLog) = 2
  /\ gpLog[1].call = "updateGenerationPreference"
  /\ gpLog[1].success
  /\ gpLog[2].call = "getScholarshipById"
  /\ Len(gpRead) = 1
  /\ gpLog[1].id = gpRead[1].id
  /\ storeRows[1].ai_policy = "Prohibited"
  /\ storeRows[1].generation_preference = "Full Draft"
  /\ gpRead[1].aiPolicy = "Prohibited"

(***************************************************************************)
(* The budget counter and the returned list of the target-count            *)
(* orchestrator.                                                           *)
(***************************************************************************)
\* C31: when a run of the target-count discoverScholarships has returned and
\* shouldStop() is true (sharedState.newCount reached targetCount), the
\* returned list holds exactly targetCount scholarships and, for a positive
\* target, the analysis batch was started.
C31_StopMeansFullList ==
  (pc = "done" /\ sharedState.newCount >= sharedState.targetCount) =>
    /\ Len(result.scholarships) = targetCount
    /\ targetCount > 0 => result.analyzedScholarships.defined

(***************************************************************************)
(* A dashboard discovery run: handleDiscover (src/app/api/init-db/route.ts) *)
(* awaits the target-count discoverScholarships and goes on with what it   *)
(* returned.  handleDiscover passes maxPagesPerSource = 10 and             *)
(* targetCount = 15; the run is modelled for the smaller arguments of      *)
(* TCInit, with at least one source selected.                              *)
(***************************************************************************)
\* discoverScholarships has returned discoveryResult: handleDiscover returns
\* when the run failed with nothing found, saves the scholarships the run
\* analyzed (each insertScholarship call succeeding or not), or enters its
\* fallback analysis loop with discoveryResult.scholarships
HDReceive ==
  /\ pc = "done"
  /\ hdPc = "idle"
  /\ IF ~result.success /\ Len(result.scholarships) = 0
     THEN /\ hdPc' = "after"
          /\ UNCHANGED <<hdDiscovered, analyzedCount>>
     ELSE IF /\ result.analyzedScholarships.defined
             /\ Len(result.analyzedScholarships.list) > 0
     THEN /\ hdPc' = "after"
          /\ hdDiscovered' = Len(result.scholarships)
          /\ analyzedCount' \in 0..Len(result.analyzedScholarships.list)
     ELSE /\ hdPc' = "loop"
          /\ hdDiscovered' = Len(result.scholarships)
          /\ UNCHANGED analyzedCount
  /\ UNCHANGED
       <<hdI, quotaExceeded, hdCalls, hdWaits, hdLast, hdAnalyzeCalls,
         notHandler>>

HRNext == TCNext \/ HDReceive \/ HDAnalyze \/ HDRateLimit \/ HDLeave

SpecHR == TCInit /\ [][HRNext]_vars

\* the URLs analyzeScholarship was called for in the run, in call order: the
\* calls of the in-run analysis batch, then those of the fallback loop
RunAnalyzeCalls ==
  analyzeCalls
    \o [k \in 1..Len(hdAnalyzeCalls) |->
          result.scholarships[hdAnalyzeCalls[k] + 1].url]

\* C32: in one dashboard discovery run, each discovered URL is passed to
\* analyzeScholarship at most once, also when the in-run analysis batch ran
\* and every one of its calls failed.
C32_AnalyzedAtMostOnce ==
  \A i, j \in 1..Len(RunAnalyzeCalls) :
    RunAnalyzeCalls[i] = RunAnalyzeCalls[j] => i = j

(***************************************************************************)
(* The duplicate streak and the number of pages scanned.                   *)
(***************************************************************************)
\* C33: in scrapeBold and scrapeScholarships360 the duplicate streak never
\* exceeds the number of pages scanned, so that a streak that has reached
\* maxConsecutiveDuplicatePages always ends the scan: the minimum number of
\* pages never postpones that stop.
C33_StreakWithinPagesScanned ==
  scraper \in {"bold", "scholarships360"} =>
    /\ consecutiveDuplicatePages <= totalPagesScanned
    /\ consecutiveDuplicatePages >= maxConsecutiveDuplicatePages
         => stopReason = "duplicates"

\* scrapeScholarships360 reached a streak of 20 duplicate pages after a
\* failed page, and stopped
C33_Witness ==
  /\ scraper = "scholarships360"
  /\ consecutiveDuplicatePages = maxConsecutiveDuplicatePages
  /\ totalPagesScanned = maxConsecutiveDuplicatePages
  /\ Len(scans) > totalPagesScanned
  /\ stopReason = "duplicates"

(***************************************************************************)
(* The click-Next loop of scrapeBold                                       *)
(* (src/app/actions/discoverScholarships.ts).                              *)
(***************************************************************************)
\* C34: in the click-Next scrapeBold, between the scans of two consecutive
\* loop iterations the earlier iteration looked for the Next button (and
\* clicked it when there was one), also when it found no candidate: no
\* iteration scans the tab the previous iteration left without such an attempt.
C34_NextAttemptBetweenScans ==
  scraper = "bold" =>
    \A i \in 1..(Len(scans) - 1) : scans[i].next # "none"

(***************************************************************************)
(* The per-source statistics of both versions of discoverScholarships.     *)
(***************************************************************************)
\* found = new + duplicates in a SourceStats record
StatsAddUp(stats) == stats.found = stats.new + stats.duplicates

\* the sum of stats.new over the sources ids of sourceStatsMap
RECURSIVE SumOfNew(_)
SumOfNew(ids) ==
  IF ids = {} THEN 0
  ELSE LET id == CHOOSE x \in ids : TRUE
       IN  sourceStatsMap[id].new + SumOfNew(ids \ {id})

\* Runs of either version; those of the target-count orchestrator can have a
\* target above what two sightings of one new scholarship count for, so that
\* a new scholarship can be collected again.
StatsTarget == MaxTargetCount + 1

StatsInit == TCStart(0..StatsTarget) \/ PGInit

SpecSS == StatsInit /\ [][DSNext]_vars

\* the run is one of the target-count orchestrator
TargetCountRun == pc \in {"source", "page", "collect", "analyze"} \/ scraper = "none"

\* C35: in the per-source statistics of discoverScholarships, found = new +
\* duplicates holds for every source at every point of the run and in the
\* returned statistics, and in the target-count orchestrator the sum of new
\* over all sources is the number of distinct new URLs collected.
C35_StatsAddUp ==
  /\ \A id \in DOMAIN sourceStatsMap : StatsAddUp(sourceStatsMap[id])
  /\ \A i \in 1..Len(sourceStats) : StatsAddUp(sourceStats[i])
  /\ pc = "done" =>
       \A i \in 1..Len(result.sourceStats) : StatsAddUp(result.sourceStats[i])
  /\ TargetCountRun =>
       SumOfNew(DOMAIN sourceStatsMap) = Cardinality(CollectedNewUrls)

\* a returned run of the target-count orchestrator over two sources that both
\* listed the same new scholarship, the second also one the store holds
C35_Witness ==
  /\ pc = "done"
  /\ targetCount = StatsTarget
  /\ Len(enabledSources) = 2
  /\ Len(result.sourceStats) = 2
  /\ result.sourceStats[1].new = 1
  /\ result.sourceStats[2].new = 0
  /\ result.sourceStats[2].duplicates = 2
  /\ Cardinality(CollectedNewUrls) = 1

(***************************************************************************)
(* toggleSaved (src/unnamed/part_006 and                                   *)
(* src/app/actions/scholarshipActions.ts): a SELECT of is_saved, then an   *)
(* UPDATE with its negation, as two statements that calls of other         *)
(* requests can interleave with.                                           *)
(***************************************************************************)
\* the number of toggleSaved calls of a run
MaxToggleCalls == 2

\* the table before the calls: a row for each URL, saved or not
SavedRows(saved) ==
  [i \in 1..Len(saved) |->
     [InsertRow(<<>>,
                [url |-> i, analysis |-> 1, draftedEssay |-> 1,
                 aiPolicy |-> "Unsure", generationPreference |-> "Full Draft"],
                i)[1]
        EXCEPT !.isSaved = saved[i]]]

\* UPDATE scholarships SET is_saved = ${newStatus} WHERE id = ${id}
SetSaved(rows, id, newStatus) ==
  [i \in 1..Len(rows) |->
     IF rows[i].id = id THEN [rows[i] EXCEPT !.isSaved = newStatus] ELSE rows[i]]

TSInit ==
  /\ tsInitial \in [1..2 -> BOOLEAN]
  /\ storeRows = SavedRows(tsInitial)
  /\ nextId = 3
  /\ insertLog = <<>>
  /\ tsPc = [c \in Callers |-> "idle"]
  /\ tsId = [c \in Callers |-> 0]
  /\ tsCurrent = [c \in Callers |-> FALSE]
  /\ tsLog = <<>>
  /\ tsStarted = 0
  /\ DiscoveryIdle
  /\ PGIdle
  /\ WPIdle
  /\ FRIdle
  /\ FPIdle
  /\ GBIdle
  /\ FNIdle
  /\ HDIdle
  /\ GPIdle

\* what a call returned
ToggleReturn(c, id, success, isSaved) ==
  [caller |-> c, id |-> id, success |-> success, isSaved |-> isSaved]

\* toggleSaved(id) up to its second await, for the id of a row or of none: the
\* SELECT; the call returns { success: false } when the query throws or finds
\* no row
TSSelect(c) ==
  /\ tsPc[c] = "idle"
  /\ tsStarted < MaxToggleCalls
  /\ tsStarted' = tsStarted + 1
  /\ \E id \in 1..nextId, dbDown \in BOOLEAN :
       LET current == IF dbDown THEN <<>> ELSE SelectById(storeRows, id)
       IN  /\ tsId' = [tsId EXCEPT ![c] = id]
           /\ IF Len(current) = 0
              THEN /\ tsLog' = Append(tsLog, ToggleReturn(c, id, FALSE, FALSE))
                   /\ UNCHANGED <<tsPc, tsCurrent>>
              ELSE /\ tsCurrent' = [tsCurrent EXCEPT ![c] = current[1].isSaved]
                   /\ tsPc' = [tsPc EXCEPT ![c] = "selected"]
                   /\ UNCHANGED tsLog
  /\ UNCHANGED <<notToggle, stVars, tsInitial>>

\* the rest of the call: the UPDATE with newStatus = !current[0].is_saved and
\* the return of { success: true, isSaved: newStatus }, or { success: false }
\* when the query throws
TSUpdate(c) ==
  /\ tsPc[c] = "selected"
  /\ tsPc' = [tsPc EXCEPT ![c] = "idle"]
  /\ \E dbDown \in BOOLEAN :
       LET newStatus == ~tsCurrent[c]
       IN  IF dbDown
           THEN /\ tsLog' = Append(tsLog, ToggleReturn(c, tsId[c], FALSE, FALSE))
                /\ UNCHANGED storeRows
           ELSE /\ storeRows' = SetSaved(storeRows, tsId[c], newStatus)
                /\ tsLog' = Append(tsLog, ToggleReturn(c, tsId[c], TRUE, newStatus))
  /\ UNCHANGED <<notToggle, nextId, insertLog, tsId, tsCurrent, tsStarted, tsInitial>>

TSNext == \E c \in Callers : TSSelect(c) \/ TSUpdate(c)

SpecTS == TSInit /\ [][TSNext]_vars

\* the calls that returned success for a row
Toggles(id) == {k \in 1..Len(tsLog) : tsLog[k].success /\ tsLog[k].id = id}

\* C36: every successful toggleSaved(id) call flips is_saved exactly once: once
\* two calls on the same row have both returned success, under any
\* interleaving, the stored is_saved is what it was before them and the two
\* calls returned opposite isSaved values.
C36_TogglesFlipOnce ==
  \A i \in 1..Len(storeRows) :
    LET done == Toggles(storeRows[i].id)
    IN  (Cardinality(done) = 2 /\ \A c \in Callers : tsPc[c] = "idle") =>
          /\ storeRows[i].isSaved = tsInitial[i]
          /\ \A k, l \in done : k # l => tsLog[k].isSaved # tsLog[l].isSaved

====
